---- MODULE Spec2Model ----
(***************************************************************************)
(* ZonKey AI worker: license validation, device sessions, daily quota and  *)
(* the payment-provider webhook, as a state machine over the D1 tables.    *)
(*                                                                         *)
(* Every `await` on the database or on an upstream service is a point at   *)
(* which other requests of the worker may run, so every handler is cut     *)
(* into one action per storage statement.                                  *)
(*                                                                         *)
(* Time: the code counts seconds (Math.floor(Date.now()/1000)).  The model *)
(* counts units of 100 s, so that 36500 days still fits the 32-bit         *)
(* integers of the model checker: 86400 s = 864 units, 1000 s = 10 units.  *)
(***************************************************************************)
EXTENDS Integers, Sequences, FiniteSets, TLC

\* ------------------------------------------------------------------ bounds
MaxRequests == 2        \* gated requests started in one behaviour
MaxValidates == 1       \* validate calls started in one behaviour
MaxTasks == 2           \* webhook deliveries whose background step is scheduled

\* --------------------------------------------------------------- constants
DAY == 86400 \div 100
MAX_DEVICES_PER_LICENSE == 2
DefaultDailyLimit == 10
Now0 == 20000 * DAY + 400

Procs == {1, 2}
Plans == {"free_trial", "monthly", "yearly", "lifetime"}
Statuses == {"active", "suspended", "expired"}

\* plan_quotas, as inserted by the schema: the daily_limit column.
PlanQuotaRows == [free_trial |-> 5, monthly |-> 50, yearly |-> 100, lifetime |-> 200]

\* quota?.daily_limit || 10 of the gated endpoints.
DailyLimitOf(plan) ==
  IF plan \in DOMAIN PlanQuotaRows /\ PlanQuotaRows[plan] # 0
    THEN PlanQuotaRows[plan]
    ELSE DefaultDailyLimit

\* ----------------------------------------------------------------- strings
\* Header values are sequences of characters (small numbers); '' is <<>>.
Fingerprints == {<<1>>, <<1, 2>>}
Agents == {<<>>, <<2>>}
JWT_SECRET == <<9>>
UserIdText(id) == <<100 + id>>

\* sha256 is taken as injective: the digest is the hashed text itself.
sha256(str) == str

DeviceHashOf(userId, clientFingerprint, agent) ==
  sha256(clientFingerprint \o agent \o UserIdText(userId) \o JWT_SECRET)

\* Math.floor(new Date().setHours(0,0,0,0)/1000) in a UTC runtime.
TodayOf(t) == (t \div DAY) * DAY

Max(a, b) == IF a > b THEN a ELSE b

\* -------------------------------------------------------------------- keys
NoKey == <<"none", 0>>
ExtKeys == {<<"ext", 1>>, <<"ext", 2>>}
NoEmail == ""
Emails == {"a", "b"}

\* ------------------------------------------------------------------ tokens
\* A token is a string: a sequence of characters, each character a tuple.
\* The text produced by an encoder is written as the encoder's name around
\* what it encoded, so that decoding is possible exactly where the real
\* decoder succeeds and two texts are equal exactly when the real ones are.
Dot == <<".">>
NoToken == <<>>
NoPayload == [sub |-> NoKey, plan |-> "", exp |-> 0]
JwtHeader == [alg |-> "HS256", typ |-> "JWT"]
OtherSecret == <<8>>

\* String.prototype.split(separator), the separator one character.
RECURSIVE Split(_, _)
Split(str, sep) ==
  IF \E i \in DOMAIN str : str[i] = sep
    THEN LET i == CHOOSE k \in DOMAIN str :
                    str[k] = sep /\ \A j \in 1 .. k - 1 : str[j] # sep
         IN <<SubSeq(str, 1, i - 1)>> \o Split(SubSeq(str, i + 1, Len(str)), sep)
    ELSE <<str>>

\* JSON.stringify(value)
JsonStringify(value) == << <<"json", value>> >>

\* JSON.parse(text) returns; it throws otherwise.
JsonParses(text) == Len(text) = 1 /\ Len(text[1]) = 2 /\ text[1][1] = "json"
JsonParse(text) == text[1][2]

\* btoa(str): the standard alphabet, with padding.
Btoa(str) == [i \in DOMAIN str |-> <<"b64", str[i]>>]

\* atob(str) returns; it throws on a character outside the standard alphabet.
Atobs(str) == \A i \in DOMAIN str : Len(str[i]) = 2 /\ str[i][1] = "b64"
Atob(str) == [i \in DOMAIN str |-> str[i][2]]

\* .replace(/\+/g, '-').replace(/\//g, '_').replace(/=/g, '')
ToBase64Url(str) ==
  [i \in DOMAIN str |->
     IF Len(str[i]) = 2 /\ str[i][1] = "b64" THEN <<"b64url", str[i][2]>> ELSE str[i]]

\* .replace(/-/g, '+').replace(/_/g, '/')
FromBase64Url(str) ==
  [i \in DOMAIN str |->
     IF Len(str[i]) = 2 /\ str[i][1] = "b64url" THEN <<"b64", str[i][2]>> ELSE str[i]]

\* crypto.subtle.sign('HMAC', key, data): the bytes of the MAC, as a string.
Hmac(secret, msg) == << <<"mac", secret, msg>> >>

\* The signing half of generateJWT: `${unsigned}.${sigBase64}`.
SignedText(unsigned, secret) ==
  unsigned \o <<Dot>> \o ToBase64Url(Btoa(Hmac(secret, unsigned)))

\* utils.generateJWT
generateJWT(payload, secret) ==
  LET header == Btoa(JsonStringify(JwtHeader))
      body == Btoa(JsonStringify(payload))
  IN SignedText(header \o <<Dot>> \o body, secret)

\* Sensitivity variant of verifyJWT: the payload decoded, the signature not
\* looked at.
decodeJWT(token, secret) ==
  LET parts == Split(token, Dot)
  IN IF Len(parts) < 3 THEN NoPayload
     ELSE IF ~Atobs(parts[2]) THEN NoPayload
     ELSE IF ~JsonParses(Atob(parts[2])) THEN NoPayload
     ELSE JsonParse(Atob(parts[2]))

\* utils.verifyJWT: the signature only, no look at exp.  null is NoPayload.
\* [h, b, s] are the first three segments; with fewer, s is undefined and
\* s.replace throws; atob and JSON.parse throw on what they cannot decode.
verifyJWT(token, secret) ==
  LET parts == Split(token, Dot)
  IN IF Len(parts) < 3 THEN NoPayload
     ELSE LET h == parts[1]
              b == parts[2]
              s == FromBase64Url(parts[3])
          IN IF ~Atobs(s) THEN NoPayload
             ELSE IF Atob(s) # Hmac(secret, h \o <<Dot>> \o b) THEN NoPayload
             ELSE IF ~Atobs(b) THEN NoPayload
             ELSE IF ~JsonParses(Atob(b)) THEN NoPayload
             ELSE JsonParse(Atob(b))

\* jose jwtVerify with algorithms ['HS256'] and no clock tolerance: exactly
\* three segments, the signature the HMAC of 'first.second', the payload a
\* JSON object, and exp, a number of seconds, after the clock.
jwtVerify(token, secret, clock) ==
  LET parts == Split(token, Dot)
  IN IF Len(parts) # 3 THEN NoPayload
     ELSE LET s == FromBase64Url(parts[3])
              b == FromBase64Url(parts[2])
          IN IF ~Atobs(s) THEN NoPayload
             ELSE IF Atob(s) # Hmac(secret, parts[1] \o <<Dot>> \o parts[2]) THEN NoPayload
             ELSE IF ~Atobs(b) THEN NoPayload
             ELSE IF ~JsonParses(Atob(b)) THEN NoPayload
             ELSE IF JsonParse(Atob(b)).exp <= clock THEN NoPayload
             ELSE JsonParse(Atob(b))

\* auth.verifyJWT: the header segment compared with the fixed HS256 header,
\* then jwtVerify; every throw is answered with null.
auth_verifyJWT(token, secret, clock) ==
  IF Split(token, Dot)[1] # Btoa(JsonStringify(JwtHeader))
    THEN NoPayload
    ELSE jwtVerify(token, secret, clock)

VARIABLES jwt, env, now, users, sessions, usage_logs, tokens, processedWebhooks,
          req, val, tasks, hook, resp, nreq, nval

vars == <<jwt, env, now, users, sessions, usage_logs, tokens, processedWebhooks,
          req, val, tasks, hook, resp, nreq, nval>>

\* -------------------------------------------------------------------- rows
NoSession == [id |-> 0, user_id |-> 0, license_key |-> NoKey,
              device_fingerprint |-> <<>>, device_hash |-> <<>>,
              browser_agent |-> <<>>, created_at |-> 0, last_used |-> 0,
              daily_requests |-> 0, daily_reset_at |-> 0, is_active |-> 0]

NoUser == [id |-> 0, email |-> NoEmail, license_key |-> NoKey, plan |-> "",
           status |-> "", created_at |-> 0, expires_at |-> 0,
           payment_provider |-> ""]

UserRows == {users[i] : i \in DOMAIN users}
SessionRows == {sessions[i] : i \in DOMAIN sessions}

\* SELECT ... FROM users WHERE license_key=? / email=?  (.first())
UsersByKey(key) == {u \in UserRows : u.license_key = key}
UsersByEmail(email) == {u \in UserRows : u.email = email}
FirstOrNone(rows, none) == IF rows = {} THEN {none} ELSE rows

\* SELECT * FROM device_sessions WHERE user_id=? AND device_hash=?
SessionsOfDevice(userId, hash) ==
  {s \in SessionRows : s.user_id = userId /\ s.device_hash = hash}

\* Sensitivity variant of ActiveCount: the COUNT without its user_id filter.
ActiveCountAnyUser(userId) ==
  Cardinality({s \in SessionRows : s.is_active = 1})

\* SELECT COUNT(*) FROM device_sessions WHERE user_id=? AND is_active=1
ActiveCount(userId) ==
  Cardinality({s \in SessionRows : s.user_id = userId /\ s.is_active = 1})

RECURSIVE SumRequests(_)
SumRequests(rows) ==
  IF rows = {} THEN 0
  ELSE LET r == CHOOSE x \in rows : TRUE
       IN r.daily_requests + SumRequests(rows \ {r})

\* Sensitivity variant of DailyUsage: the SUM without its daily_reset_at filter.
DailyUsageAllDays(userId, today) ==
  SumRequests({s \in SessionRows : s.user_id = userId})

\* SELECT SUM(daily_requests) FROM device_sessions
\*   WHERE user_id=? AND daily_reset_at>=?
DailyUsage(userId, today) ==
  SumRequests({s \in SessionRows : s.user_id = userId /\ s.daily_reset_at >= today})

\* ------------------------------------------------------------ gated request
IdleReq == [op |-> "idle", pc |-> "idle", token |-> NoToken,
            fp |-> <<>>, agent |-> <<>>, payload |-> NoPayload,
            user |-> 0, key |-> NoKey, hash |-> <<>>, now |-> 0, today |-> 0,
            existing |-> NoSession, sid |-> 0, device_used |-> 0,
            used |-> 0, limit |-> 0]

GatedOps == {"stats", "keywords", "process"}

\* The last response the worker sent.  A handler that has answered holds no
\* state any more.
NoResp == [endpoint |-> "", status |-> 0, error |-> "", user |-> 0,
           used |-> 0, limit |-> 0, device_used |-> 0,
           key |-> NoKey, token |-> NoToken,
           webhook_id |-> 0, duplicate |-> FALSE, dodo |-> ""]

Respond(p, r, status, error) ==
  /\ req' = [req EXCEPT ![p] = IdleReq]
  /\ resp' = [NoResp EXCEPT !.endpoint = r.op, !.status = status, !.error = error,
                            !.user = r.user, !.used = r.used, !.limit = r.limit,
                            !.device_used = r.device_used, !.token = r.token]

ReqFree(p) == req[p].pc = "idle"

\* Token check, user lookup, then the entry of getOrCreateDeviceSession, which
\* computes deviceHash, now and today before its first statement.
ReqBegin(p) ==
  /\ ReqFree(p)
  /\ \A q \in Procs : q < p => ~ReqFree(q)
  /\ nreq < MaxRequests
  /\ nreq' = nreq + 1
  /\ \E op \in GatedOps, tok \in tokens \cup {NoToken},
        fp \in Fingerprints, ag \in Agents :
       LET payload == verifyJWT(tok, JWT_SECRET)
           r0 == [IdleReq EXCEPT !.op = op, !.token = tok, !.fp = fp, !.agent = ag,
                                 !.payload = payload]
       IN IF payload = NoPayload
            THEN Respond(p, r0, 401, "Unauthorized")
            ELSE \E user \in FirstOrNone(UsersByKey(payload.sub), NoUser) :
                   IF user = NoUser
                     THEN Respond(p, r0, 404, "User not found")
                     ELSE /\ req' = [req EXCEPT ![p] =
                               [r0 EXCEPT !.pc = "lookup", !.user = user.id,
                                          !.key = user.license_key,
                                          !.hash = DeviceHashOf(user.id, fp, ag),
                                          !.now = now, !.today = TodayOf(now)]]
                          /\ UNCHANGED resp
  /\ UNCHANGED <<jwt, env, hook, now, users, sessions, usage_logs, tokens, processedWebhooks, val, tasks, nval>>

\* existing.daily_reset_at || 0) < today
NeedsReset(existing, today) == existing.daily_reset_at < today

\* Sensitivity variant of DeviceLimitReached: `>` for `>=`.
DeviceLimitExceeded(count) == count > MAX_DEVICES_PER_LICENSE

\* (activeCount?.c || 0) >= MAX_DEVICES_PER_LICENSE
DeviceLimitReached(count) == count >= MAX_DEVICES_PER_LICENSE

\* used >= dailyLimit
QuotaExceeded(used, dailyLimit) == used >= dailyLimit

\* Sensitivity variant of NewSession: the row is written with is_active = 0.
NewSessionInactive(id, r) ==
  [id |-> id, user_id |-> r.user, license_key |-> r.key,
   device_fingerprint |-> r.fp, device_hash |-> r.hash, browser_agent |-> r.agent,
   created_at |-> r.now, last_used |-> r.now,
   daily_requests |-> 0, daily_reset_at |-> r.today, is_active |-> 0]

\* The row written by the INSERT of getOrCreateDeviceSession.
NewSession(id, r) ==
  [id |-> id, user_id |-> r.user, license_key |-> r.key,
   device_fingerprint |-> r.fp, device_hash |-> r.hash, browser_agent |-> r.agent,
   created_at |-> r.now, last_used |-> r.now,
   daily_requests |-> 0, daily_reset_at |-> r.today, is_active |-> 1]

\* UPDATE device_sessions SET daily_requests=0,daily_reset_at=?,last_used=? WHERE id=?
ResetRow(s, today, t) ==
  [s EXCEPT !.daily_requests = 0, !.daily_reset_at = today, !.last_used = t]

\* UPDATE device_sessions SET last_used=? WHERE id=?
TouchRow(s, t) == [s EXCEPT !.last_used = t]

\* Sensitivity variant of IncrementRow: the counter raised by two.
IncrementRowTwice(s) == [s EXCEPT !.daily_requests = s.daily_requests + 2]

\* UPDATE device_sessions SET daily_requests=daily_requests+1 WHERE id=?
IncrementRow(s) == [s EXCEPT !.daily_requests = s.daily_requests + 1]

\* Sensitivity variant of ReqLookup: the cap is tested before the device's row
\* is looked up.
ReqLookupCapFirst(p) ==
  /\ req[p].pc = "lookup"
  /\ IF DeviceLimitReached(ActiveCount(req[p].user))
       THEN Respond(p, req[p], 403, "DEVICE_LIMIT_REACHED")
       ELSE /\ \E existing \in FirstOrNone(SessionsOfDevice(req[p].user, req[p].hash), NoSession) :
                 req' = [req EXCEPT ![p] =
                           [req[p] EXCEPT !.existing = existing,
                                          !.pc = IF existing = NoSession THEN "count" ELSE "touch"]]
            /\ UNCHANGED resp
  /\ UNCHANGED <<jwt, env, hook, now, users, sessions, usage_logs, tokens, processedWebhooks, val, tasks, nreq, nval>>

\* getOrCreateDeviceSession: the SELECT of the device's row.  With several rows
\* for one device the statement has no ORDER BY: any of them may come first.
ReqLookup(p) ==
  /\ req[p].pc = "lookup"
  /\ \E existing \in FirstOrNone(SessionsOfDevice(req[p].user, req[p].hash), NoSession) :
       req' = [req EXCEPT ![p] =
                 [req[p] EXCEPT !.existing = existing,
                                !.pc = IF existing = NoSession THEN "count" ELSE "touch"]]
  /\ UNCHANGED <<jwt, env, hook, now, users, sessions, usage_logs, tokens, processedWebhooks, val, tasks, resp, nreq, nval>>

\* getOrCreateDeviceSession, known device: reset the counter of an older day
\* or refresh last_used, by the row id read before; the snapshot is returned.
ReqTouch(p) ==
  /\ req[p].pc = "touch"
  /\ LET r == req[p]
         id == r.existing.id
     IN IF NeedsReset(r.existing, r.today)
          THEN /\ sessions' = [sessions EXCEPT ![id] = ResetRow(sessions[id], r.today, r.now)]
               /\ req' = [req EXCEPT ![p] =
                            [r EXCEPT !.pc = "quota", !.sid = id, !.device_used = 0]]
          ELSE /\ sessions' = [sessions EXCEPT ![id] = TouchRow(sessions[id], r.now)]
               /\ req' = [req EXCEPT ![p] =
                            [r EXCEPT !.pc = "quota", !.sid = id,
                                      !.device_used = r.existing.daily_requests]]
  /\ UNCHANGED <<jwt, env, hook, now, users, usage_logs, tokens, processedWebhooks, val, tasks, resp, nreq, nval>>

\* getOrCreateDeviceSession, new device: the COUNT and the cap.
ReqCount(p) ==
  /\ req[p].pc = "count"
  /\ IF DeviceLimitReached(ActiveCount(req[p].user))
       THEN Respond(p, req[p], 403, "DEVICE_LIMIT_REACHED")
       ELSE /\ req' = [req EXCEPT ![p] = [req[p] EXCEPT !.pc = "insert"]]
            /\ UNCHANGED resp
  /\ UNCHANGED <<jwt, env, hook, now, users, sessions, usage_logs, tokens, processedWebhooks, val, tasks, nreq, nval>>

\* getOrCreateDeviceSession, new device: the INSERT (id = crypto.randomUUID()).
ReqInsert(p) ==
  /\ req[p].pc = "insert"
  /\ LET id == Len(sessions) + 1
     IN /\ sessions' = Append(sessions, NewSession(id, req[p]))
        /\ req' = [req EXCEPT ![p] =
                     [req[p] EXCEPT !.pc = "quota", !.sid = id, !.device_used = 0]]
  /\ UNCHANGED <<jwt, env, hook, now, users, usage_logs, tokens, processedWebhooks, val, tasks, resp, nreq, nval>>

\* The quota gate: the plan's row of plan_quotas, today computed again, then
\* the SUM over the user's rows.  /api/user/stats reports the figures, never
\* answers 429, and answers 404 for a plan without a row.
ReqQuota(p) ==
  /\ req[p].pc = "quota"
  /\ LET r == req[p]
         used == DailyUsage(r.user, TodayOf(now))
         dailyLimit == DailyLimitOf(r.payload.plan)
         r1 == [r EXCEPT !.used = used, !.limit = dailyLimit]
     IN IF r.op = "stats"
          THEN IF r.payload.plan \in DOMAIN PlanQuotaRows
                 THEN Respond(p, r1, 200, "")
                 ELSE Respond(p, r, 404, "Plan quota not found")
          ELSE IF QuotaExceeded(used, dailyLimit)
                 THEN Respond(p, r1, 429, "Daily limit exceeded")
                 ELSE /\ req' = [req EXCEPT ![p] = [r1 EXCEPT !.pc = "upstream"]]
                      /\ UNCHANGED resp
  /\ UNCHANGED <<jwt, env, hook, now, users, sessions, usage_logs, tokens, processedWebhooks, val, tasks, nreq, nval>>

\* Body parsing and the call of the model provider (out of scope: its outcome
\* is an input).  generate-keywords answers 400 to a body without titles;
\* /api/ai/process throws on a body without data, which its catch turns into 500.
UpstreamOutcomes == {"ok", "bad_body", "ai_error"}

ReqUpstream(p) ==
  /\ req[p].pc = "upstream"
  /\ \E outcome \in UpstreamOutcomes :
       CASE outcome = "ok" ->
              /\ req' = [req EXCEPT ![p] = [req[p] EXCEPT !.pc = "increment"]]
              /\ UNCHANGED resp
         [] outcome = "bad_body" ->
              Respond(p, req[p], IF req[p].op = "keywords" THEN 400 ELSE 500, "bad body")
         [] outcome = "ai_error" -> Respond(p, req[p], 500, "AI service error")
  /\ UNCHANGED <<jwt, env, hook, now, users, sessions, usage_logs, tokens, processedWebhooks, val, tasks, nreq, nval>>

\* incrementDeviceUsage(session.id)
ReqIncrement(p) ==
  /\ req[p].pc = "increment"
  /\ sessions' = [sessions EXCEPT ![req[p].sid] = IncrementRow(sessions[req[p].sid])]
  /\ IF req[p].op = "keywords"
       THEN /\ req' = [req EXCEPT ![p] = [req[p] EXCEPT !.pc = "log"]]
            /\ UNCHANGED resp
       ELSE Respond(p, req[p], 200, "")
  /\ UNCHANGED <<jwt, env, hook, now, users, usage_logs, tokens, processedWebhooks, val, tasks, nreq, nval>>

\* generate-keywords: INSERT INTO usage_logs; a failed statement throws into
\* the handler's catch (500).
ReqLog(p) ==
  /\ req[p].pc = "log"
  /\ \/ /\ usage_logs' = Append(usage_logs,
                                [user_id |-> req[p].user, action |-> "generate_keywords",
                                 timestamp |-> now])
        /\ Respond(p, req[p], 200, "")
     \/ /\ UNCHANGED usage_logs
        /\ Respond(p, req[p], 500, "storage error")
  /\ UNCHANGED <<jwt, env, hook, now, users, sessions, tokens, processedWebhooks, val, tasks, nreq, nval>>

\* ----------------------------------------------------------- score-products
\* SELECT COUNT(*) FROM usage_logs WHERE user_id = ? AND timestamp >= ?
UsageCount(userId, today) ==
  Cardinality({k \in DOMAIN usage_logs : /\ usage_logs[k].user_id = userId
                                         /\ usage_logs[k].timestamp >= today})

\* usage && quota && usage.count >= quota.daily_limit
RateLimited(count, plan) ==
  plan \in DOMAIN PlanQuotaRows /\ count >= PlanQuotaRows[plan]

\* handleScoreProducts: the token check of auth.verifyJWT and the SELECT of
\* the user.
ScoreBegin(p) ==
  /\ ReqFree(p)
  /\ \A q \in Procs : q < p => ~ReqFree(q)
  /\ nreq < MaxRequests
  /\ nreq' = nreq + 1
  /\ \E tok \in tokens \cup {NoToken} :
       LET payload == auth_verifyJWT(tok, JWT_SECRET, now)
           r0 == [IdleReq EXCEPT !.op = "score", !.token = tok, !.payload = payload]
       IN IF payload = NoPayload
            THEN Respond(p, r0, 401, "Invalid authentication token")
            ELSE \E user \in FirstOrNone(UsersByKey(payload.sub), NoUser) :
                   IF user = NoUser
                     THEN Respond(p, r0, 404, "User not found")
                     ELSE /\ req' = [req EXCEPT ![p] =
                               [r0 EXCEPT !.pc = "score_count", !.user = user.id,
                                          !.key = user.license_key]]
                          /\ UNCHANGED resp
  /\ UNCHANGED <<jwt, env, hook, now, users, sessions, usage_logs, tokens, processedWebhooks, val, tasks, nval>>

\* today, the COUNT over usage_logs, the plan's daily_limit (plan_quotas is
\* never written), the 429, and the body, whose products are an array or not.
ScoreCount(p) ==
  /\ req[p].pc = "score_count"
  /\ LET r == [req[p] EXCEPT !.today = TodayOf(now),
                             !.used = UsageCount(req[p].user, TodayOf(now))]
     IN IF RateLimited(r.used, r.payload.plan)
          THEN Respond(p, r, 429, "Daily rate limit exceeded")
          ELSE \E isArray \in BOOLEAN :
                 IF ~isArray
                   THEN Respond(p, r, 400, "Invalid products data")
                   ELSE /\ req' = [req EXCEPT ![p] = [r EXCEPT !.pc = "score_log"]]
                        /\ UNCHANGED resp
  /\ UNCHANGED <<jwt, env, hook, now, users, sessions, usage_logs, tokens, processedWebhooks, val, tasks, nreq, nval>>

\* INSERT INTO usage_logs (..., timestamp, ...) with Math.floor(Date.now()/1000);
\* a failed statement throws into the handler's catch (500).
ScoreLog(p) ==
  /\ req[p].pc = "score_log"
  /\ \/ /\ usage_logs' = Append(usage_logs,
                                [user_id |-> req[p].user, action |-> "score_products",
                                 timestamp |-> now])
        /\ Respond(p, req[p], 200, "")
     \/ /\ UNCHANGED usage_logs
        /\ Respond(p, req[p], 500, "Internal server error")
  /\ UNCHANGED <<jwt, env, hook, now, users, sessions, tokens, processedWebhooks, val, tasks, nreq, nval>>

ScoreStep(p) == ScoreCount(p) \/ ScoreLog(p)

\* ------------------------------------------------------------------- clock
\* The instants at which the worker reads the clock: a start, 100 s later,
\* and the same time of the next day.
Instants == {Now0, Now0 + 1, Now0 + DAY}

Tick ==
  /\ \E t \in Instants : t > now /\ now' = t
  /\ UNCHANGED <<jwt, env, hook, users, sessions, usage_logs, tokens, processedWebhooks, req, val, tasks, resp, nreq, nval>>

\* ---------------------------------------------------------------- validate
IdleVal == [pc |-> "idle", key |-> NoKey, now |-> 0, dodo |-> "",
            plan |-> "", email |-> NoEmail, expires |-> 0]

RespondVal(p, key, status, error, token) ==
  /\ val' = [val EXCEPT ![p] = IdleVal]
  /\ resp' = [NoResp EXCEPT !.endpoint = "validate", !.status = status,
                            !.error = error, !.key = key, !.token = token]

\* A response after the billing provider was asked; dodo is its answer.
RespondDodo(p, key, status, error, dodo) ==
  /\ val' = [val EXCEPT ![p] = IdleVal]
  /\ resp' = [NoResp EXCEPT !.endpoint = "validate", !.status = status,
                            !.error = error, !.key = key, !.dodo = dodo]

ValFree(p) == val[p].pc = "idle"

\* local.status !== 'active'
LicenseInactive(local) == local.status # "active"

\* local.expires_at < now
LicenseExpired(local, t) == local.expires_at < t

\* let duration = 30*86400; yearly: 365*86400; lifetime: 100*365*86400
DefaultDuration(plan) ==
  IF plan = "lifetime" THEN 100 * 365 * DAY
  ELSE IF plan = "yearly" THEN 365 * DAY
  ELSE 30 * DAY

\* `user_${license_key.slice(0,6)}@zonkey.ai`: the key's leading characters.
FallbackEmail(license_key) == "user_" \o license_key[1]

\* What the billing provider may report for a key: metadata.plan_type
\* ('' when absent) and customer.email ('' when absent).
DodoPlanTypes == {"", "yearly", "lifetime", "team"}
DodoEmails == {"a", NoEmail}

\* The first fetch: it throws, or answers with a status that is not 2xx, or
\* answers 2xx.
DodoAnswers == {"unreachable", "rejected", "ok"}

\* Sensitivity variant of DodoOk: any answer of the provider counts.
DodoAnswered(dodo) == dodo # "unreachable"

\* dodo.ok
DodoOk(dodo) == dodo = "ok"

\* Keys a client may post; NoKey is a body without license_key.
PostedKeys == ExtKeys \cup {u.license_key : u \in UserRows} \cup {NoKey}

\* The token minted for a stored license.
TokenFor(license_key, plan, exp) ==
  generateJWT([sub |-> license_key, plan |-> plan, exp |-> exp], JWT_SECRET)

\* The SELECT of the local row.  A known key is answered at once.  An unknown
\* key goes to the billing provider, whose answers are inputs and touch no
\* state of the worker: 500 when the fetch throws, 403 when it is not ok, or
\* on to the INSERT.
ValBegin(p) ==
  /\ ValFree(p)
  /\ \A q \in Procs : q < p => ~ValFree(q)
  /\ nval < MaxValidates
  /\ nval' = nval + 1
  /\ \E license_key \in PostedKeys :
       IF license_key = NoKey
         THEN /\ RespondVal(p, license_key, 400, "License key required", NoToken)
              /\ UNCHANGED tokens
         ELSE \E local \in FirstOrNone(UsersByKey(license_key), NoUser) :
                IF local # NoUser
                  THEN IF LicenseInactive(local)
                    THEN /\ RespondVal(p, license_key, 403, "License inactive", NoToken)
                         /\ UNCHANGED tokens
                    ELSE IF LicenseExpired(local, now)
                      THEN /\ RespondVal(p, license_key, 403, "License expired", NoToken)
                           /\ UNCHANGED tokens
                      ELSE LET token == TokenFor(license_key, local.plan, local.expires_at)
                           IN /\ tokens' = tokens \cup {token}
                              /\ RespondVal(p, license_key, 200, "", token)
                  ELSE /\ UNCHANGED tokens
                       /\ \E dodo \in DodoAnswers :
                            IF dodo = "unreachable"
                              THEN RespondDodo(p, license_key, 500, "fetch failed", dodo)
                              ELSE IF ~DodoOk(dodo)
                                THEN RespondDodo(p, license_key, 403, "Invalid license", dodo)
                                ELSE \E plan_type \in DodoPlanTypes, customer_email \in DodoEmails :
                                       LET plan == IF plan_type = "" THEN "monthly" ELSE plan_type
                                           email == IF customer_email = NoEmail
                                                      THEN FallbackEmail(license_key)
                                                      ELSE customer_email
                                       IN /\ val' = [val EXCEPT ![p] =
                                               [pc |-> "upsert", key |-> license_key, now |-> now,
                                                dodo |-> dodo,
                                                plan |-> plan, email |-> email,
                                                expires |-> now + DefaultDuration(plan)]]
                                          /\ UNCHANGED resp
  /\ UNCHANGED <<jwt, env, hook, now, users, sessions, usage_logs, processedWebhooks, req, tasks, nreq>>

\* CHECK(plan IN (...)) and FOREIGN KEY (plan) REFERENCES plan_quotas(plan)
PlanAllowed(plan) == plan \in Plans

\* The row of INSERT INTO users(id,email,license_key,plan,created_at,expires_at,status)
ValidatedRow(id, v) ==
  [id |-> id, email |-> v.email, license_key |-> v.key, plan |-> v.plan,
   status |-> "active", created_at |-> v.now, expires_at |-> v.expires,
   payment_provider |-> ""]

\* ... ON CONFLICT(license_key) DO UPDATE SET plan=excluded.plan,expires_at=excluded.expires_at
UpsertedRow(u, v) == [u EXCEPT !.plan = v.plan, !.expires_at = v.expires]

\* The INSERT.  A row with the key is updated; failing that, a row with the
\* email breaks UNIQUE(email); a plan outside the CHECK list breaks the CHECK.
\* A failed statement throws into the handler's catch (500).
ValUpsert(p) ==
  /\ val[p].pc = "upsert"
  /\ LET v == val[p]
         byKey == UsersByKey(v.key)
         token == TokenFor(v.key, v.plan, v.expires)
         ok == /\ tokens' = tokens \cup {token}
               /\ RespondVal(p, v.key, 200, "", token)
         failed == /\ UNCHANGED <<users, tokens>>
                   /\ RespondVal(p, v.key, 500, "constraint failed", NoToken)
     IN IF ~PlanAllowed(v.plan)
          THEN failed
          ELSE IF byKey # {}
            THEN LET id == (CHOOSE u \in byKey : TRUE).id
                 IN /\ users' = [users EXCEPT ![id] = UpsertedRow(users[id], v)]
                    /\ ok
            ELSE IF UsersByEmail(v.email) # {}
              THEN failed
              ELSE /\ users' = Append(users, ValidatedRow(Len(users) + 1, v))
                   /\ ok
  /\ UNCHANGED <<jwt, env, hook, now, sessions, usage_logs, processedWebhooks, req, tasks, nreq, nval>>

\* ----------------------------------------------------------------- webhook
\* const PRODUCTS
MonthlyProduct == "pdt_0NWZwZB3eia1vz1BCOw6C"
YearlyProduct == "pdt_0NWa2tSwTrvneWU2Yh423"
LifetimeProduct == "pdt_0NWZx6IG1WxAoyOv9korR"
NoProduct == [plan |-> "", durationDays |-> 0]

\* PRODUCTS is a plain object: the name of a property of Object.prototype
\* reads as a value that is truthy and has neither plan nor durationDays.
InheritedName == "constructor"
InheritedValue == [plan |-> "undefined", durationDays |-> 0]

\* Sensitivity variant of PRODUCTS: an id without an entry is sold as the
\* monthly product.
ProductsOrMonthly(productId) ==
  CASE productId = YearlyProduct -> [plan |-> "yearly", durationDays |-> 365]
    [] productId = LifetimeProduct -> [plan |-> "lifetime", durationDays |-> 36500]
    [] OTHER -> [plan |-> "monthly", durationDays |-> 30]

PRODUCTS(productId) ==
  CASE productId = MonthlyProduct -> [plan |-> "monthly", durationDays |-> 30]
    [] productId = YearlyProduct -> [plan |-> "yearly", durationDays |-> 365]
    [] productId = LifetimeProduct -> [plan |-> "lifetime", durationDays |-> 36500]
    [] productId = InheritedName -> InheritedValue
    [] OTHER -> NoProduct

\* generateKey(plan): 'AKH-' + PLAN + twelve random characters.
KeySuffixes == {1, 2}
generateKey(plan, random) == <<plan, random>>

IsFailureType(type) ==
  type \in {"payment.failed", "subscription.cancelled", "subscription.payment_failed"}

IsSuccessType(type) ==
  type \in {"payment.succeeded", "subscription.created", "subscription.active"}

\* Bodies the provider (or anyone who can sign) may send.  email is
\* customer.email || customer_email, line_product_id is lines[0].product_id;
\* '' stands for an absent field.
WebhookIds == 1 .. MaxTasks + 1
NoWebhookId == 0
EventTypes == {"payment.failed", "subscription.cancelled", "subscription.payment_failed",
               "payment.succeeded", "subscription.created", "subscription.active",
               "invoice.created"}
EventProducts == {"", MonthlyProduct, YearlyProduct, LifetimeProduct, "pdt_unknown",
                  InheritedName}
LineProducts == {"", YearlyProduct}
Events == [type : EventTypes, email : Emails \cup {NoEmail},
           product_id : EventProducts, line_product_id : LineProducts,
           subscription_id : {"", "sub_1"}]
\* A body JSON.parse rejects, and the body `null`, which it accepts.
InvalidJson == [type |-> "", email |-> NoEmail, product_id |-> "", line_product_id |-> "",
                subscription_id |-> "{"]
NullJson == [type |-> "", email |-> NoEmail, product_id |-> "", line_product_id |-> "",
             subscription_id |-> "null"]

\* Sensitivity variant of ResolveProduct: no default for a subscription.
ResolveListedProduct(data) ==
  IF data.product_id # "" THEN data.product_id ELSE data.line_product_id

\* productId: product_id || lines?.[0]?.product_id, then the fallback to the
\* monthly product.
ResolveProduct(data) ==
  LET productId == IF data.product_id # "" THEN data.product_id ELSE data.line_product_id
  IN IF productId = "" /\ data.subscription_id # "" THEN MonthlyProduct ELSE productId

\* processWebhookAsync up to its first statement: where the background step
\* stands when the handler has returned.
FirstStep(type, data) ==
  IF IsFailureType(type)
    THEN IF data.email # NoEmail THEN "expire" ELSE "done"
    ELSE IF IsSuccessType(type)
      THEN IF data.email = NoEmail \/ ResolveProduct(data) = "" THEN "done"
           ELSE IF PRODUCTS(ResolveProduct(data)) = NoProduct THEN "done"
           ELSE "select"
      ELSE "done"

\* A background step that has work to do keeps the resolved email and product;
\* the failure branch never looks at the product, the other branches keep nothing.
NoTask == [webhook_id |-> NoWebhookId, pc |-> "done", type |-> "", email |-> NoEmail,
           productConfig |-> NoProduct, existingUser |-> NoUser, now |-> 0,
           finalLicenseKey |-> NoKey, error |-> ""]

NewTask(webhookId, type, data) ==
  LET first == FirstStep(type, data)
  IN [NoTask EXCEPT !.webhook_id = webhookId, !.pc = first, !.type = type,
                    !.email = IF first = "done" THEN NoEmail ELSE data.email,
                    !.productConfig = IF first = "select"
                                        THEN PRODUCTS(ResolveProduct(data))
                                        ELSE NoProduct]

\* The resolved promise: only what the event was and how it ended stays on record.
Finished(t, error) ==
  [t EXCEPT !.pc = "done", !.existingUser = NoUser, !.now = 0,
            !.finalLicenseKey = NoKey, !.error = error]

\* ------------------------------------------------------ webhook signature
\* Header text is a sequence of characters; a character is a one-element
\* tuple, and the characters of a base64 digest are the tuple of what was
\* signed followed by the padding '='.
Chr(c) == <<c>>
Space == Chr(" ")
V1Comma == <<Chr("v"), Chr("1"), Chr(",")>>

\* env.DODO_WEBHOOK_SECRET: absent, or the provider's 'whsec_...' secret.
NoSecret == ""
ProviderSecret == "whsec_k"
Envs == {[DODO_WEBHOOK_SECRET |-> NoSecret], [DODO_WEBHOOK_SECRET |-> ProviderSecret]}

\* secret.startsWith('whsec_') ? secret.slice(6) : secret
SecretKey(secret) == IF secret = ProviderSecret THEN "k" ELSE secret

\* `${webhookId}.${timestamp}.${payload}`
SignedData(webhookId, timestamp, payload) == <<webhookId, timestamp, payload>>

\* uint8ArrayToBase64(HMAC-SHA256(key, signedData))
HmacBase64(key, signedData) == <<<<"mac", key, signedData>>, Chr("=")>>

\* String.prototype.replace(pattern, ''): the first occurrence, wherever it is.
ReplaceFirst(str, pattern) ==
  LET at == {i \in 1 .. Len(str) - Len(pattern) + 1 :
               SubSeq(str, i, i + Len(pattern) - 1) = pattern}
  IN IF at = {} THEN str
     ELSE LET i == CHOOSE k \in at : \A j \in at : k <= j
          IN SubSeq(str, 1, i - 1) \o SubSeq(str, i + Len(pattern), Len(str))

\* signature.split(' ').map(s => s.replace('v1,', ''))
Signatures(signature) ==
  LET parts == Split(signature, Space)
  IN [k \in DOMAIN parts |-> ReplaceFirst(parts[k], V1Comma)]

\* signatures.some(sig => sig === expectedSignatureBase64)
verifySignature(payload, signature, timestamp, webhookId, secret) ==
  LET expectedSignatureBase64 ==
        HmacBase64(SecretKey(secret), SignedData(webhookId, timestamp, payload))
      signatures == Signatures(signature)
  IN \E k \in DOMAIN signatures : signatures[k] = expectedSignatureBase64

\* What a sender puts into webhook-signature: nothing, the provider's
\* signature, a foreign one, both (key rotation), the provider's digest
\* without 'v1,', and the digest with 'v1,' between its characters.
ProviderDigest(webhookId, timestamp, payload) ==
  HmacBase64("k", SignedData(webhookId, timestamp, payload))
ForeignDigest(webhookId, timestamp, payload) ==
  HmacBase64("x", SignedData(webhookId, timestamp, payload))

SignatureHeaders(webhookId, timestamp, payload) ==
  LET good == ProviderDigest(webhookId, timestamp, payload)
      bad == ForeignDigest(webhookId, timestamp, payload)
  IN {<<>>,
      V1Comma \o good,
      V1Comma \o bad,
      V1Comma \o bad \o <<Space>> \o V1Comma \o good,
      good,
      <<good[1]>> \o V1Comma \o <<good[2]>>}

Timestamps == {"", "t1"}

\* ------------------------------------------------------- webhook handler
\* The last request to the webhook endpoint and what the handler logged
\* about signature and dedup, in order.
NoHook == [webhook_id |-> NoWebhookId, signature |-> <<>>, timestamp |-> "",
           body |-> InvalidJson, log |-> <<>>]

\* Sensitivity variant of HookResponse: the acknowledgment as 202 Accepted.
HookResponseAccepted(webhookId, status, error, duplicate) ==
  [NoResp EXCEPT !.endpoint = "webhook",
                 !.status = IF status = 200 THEN 202 ELSE status, !.error = error,
                 !.webhook_id = webhookId, !.duplicate = duplicate]

HookResponse(webhookId, status, error, duplicate) ==
  [NoResp EXCEPT !.endpoint = "webhook", !.status = status, !.error = error,
                 !.webhook_id = webhookId, !.duplicate = duplicate]

\* Sensitivity variant of BypassLog: the bypass without a word.
SilentBypass == <<>>

\* console.error and console.warn of the branch without a secret.
BypassLog == <<"DODO_WEBHOOK_SECRET is not configured",
               "Skipping signature verification - secret not configured">>

\* Sensitivity variant of AlreadyProcessed: the id is looked up among the
\* finished background steps.
AlreadyApplied(webhookId) ==
  \E i \in DOMAIN tasks : tasks[i].webhook_id = webhookId /\ tasks[i].pc = "done"

\* processedWebhooks.has(webhookId)
AlreadyProcessed(webhookId) == webhookId \in processedWebhooks

\* handleDodoWebhook.  processedWebhooks is read and written with no await in
\* between, and nothing else is read before the response: the handler is one
\* step.  A body that parses to null throws at the destructuring of payload,
\* which the outer catch answers with 500.
HandleWebhook(webhookId, signature, timestamp, body) ==
  LET request == [webhook_id |-> webhookId, signature |-> signature,
                  timestamp |-> timestamp, body |-> body, log |-> <<>>]
      Answer(log, status, error, duplicate) ==
        /\ hook' = [request EXCEPT !.log = log]
        /\ resp' = HookResponse(webhookId, status, error, duplicate)
      secret == env.DODO_WEBHOOK_SECRET
      isValid == verifySignature(body, signature, timestamp, webhookId, secret)
      checked == IF secret = NoSecret THEN BypassLog
                 ELSE IF isValid THEN <<"Signature Valid: true", "Webhook signature verified">>
                 ELSE <<"Signature Valid: false", "Invalid webhook signature">>
  IN /\ IF webhookId = NoWebhookId \/ signature = <<>> \/ timestamp = ""
          THEN /\ Answer(<<>>, 400, "Missing required headers", FALSE)
               /\ UNCHANGED <<processedWebhooks, tasks>>
          ELSE IF secret # NoSecret /\ ~isValid
            THEN /\ Answer(checked, 401, "Invalid signature", FALSE)
                 /\ UNCHANGED <<processedWebhooks, tasks>>
            ELSE IF AlreadyProcessed(webhookId)
              THEN /\ Answer(Append(checked, "Duplicate webhook"), 200, "", TRUE)
                   /\ UNCHANGED <<processedWebhooks, tasks>>
              ELSE /\ processedWebhooks' = processedWebhooks \cup {webhookId}
                   /\ IF body = InvalidJson
                        THEN /\ Answer(Append(checked, "Failed to parse JSON"),
                                       400, "Invalid JSON payload", FALSE)
                             /\ UNCHANGED tasks
                        ELSE IF body = NullJson
                          THEN /\ Answer(Append(checked, "Webhook Error"),
                                         500, "Internal Server Error", FALSE)
                               /\ UNCHANGED tasks
                          ELSE /\ Len(tasks) < MaxTasks
                               /\ Answer(Append(checked, "Webhook Event Type"), 200, "", FALSE)
                               /\ tasks' = Append(tasks, NewTask(webhookId, body.type, body))
     /\ UNCHANGED <<jwt, env, now, users, sessions, usage_logs, tokens, req, val, nreq, nval>>

\* Any request that reaches the endpoint.
Deliver ==
  \E webhookId \in WebhookIds \cup {NoWebhookId}, timestamp \in Timestamps,
     body \in Events \cup {InvalidJson, NullJson} :
    \E signature \in SignatureHeaders(webhookId, timestamp, body) :
      HandleWebhook(webhookId, signature, timestamp, body)

\* A sample of the same: requests with all three headers, for two ids and
\* one body of each kind (a purchase, a cancellation, an unparsable body, the
\* body `null`), and one request for each missing header.
SampleBodies ==
  {[type |-> "payment.succeeded", email |-> "b", product_id |-> MonthlyProduct,
    line_product_id |-> "", subscription_id |-> ""],
   [type |-> "subscription.cancelled", email |-> "a", product_id |-> "",
    line_product_id |-> "", subscription_id |-> "sub_1"],
   InvalidJson, NullJson}

SampleRequests ==
  UNION {{[webhook_id |-> webhookId, signature |-> signature, timestamp |-> "t1",
           body |-> body] :
            signature \in SignatureHeaders(webhookId, "t1", body) \ {<<>>}} :
         webhookId \in 1 .. MaxTasks, body \in SampleBodies}

MalformedRequests ==
  LET body == CHOOSE b \in SampleBodies : b.type = "payment.succeeded"
      sig(w, t) == V1Comma \o ProviderDigest(w, t, body)
  IN {[webhook_id |-> NoWebhookId, signature |-> sig(NoWebhookId, "t1"),
       timestamp |-> "t1", body |-> body],
      [webhook_id |-> 1, signature |-> <<>>, timestamp |-> "t1", body |-> body],
      [webhook_id |-> 1, signature |-> sig(1, ""), timestamp |-> "", body |-> body]}

DeliverSample ==
  \E r \in SampleRequests \cup MalformedRequests :
    HandleWebhook(r.webhook_id, r.signature, r.timestamp, r.body)

\* The provider's own deliveries of purchase and cancellation events: signed,
\* well-formed, naming the customer and a catalog product, each under the
\* next unused webhook-id.
LifecycleEvents ==
  {e \in Events : /\ e.type \in {"payment.succeeded", "subscription.cancelled"}
                  /\ e.email # NoEmail
                  /\ e.product_id \in {MonthlyProduct, YearlyProduct}
                  /\ e.line_product_id = ""
                  /\ e.subscription_id = ""}

DeliverLifecycle ==
  \E body \in LifecycleEvents :
    LET webhookId == Cardinality(processedWebhooks) + 1
    IN HandleWebhook(webhookId, V1Comma \o ProviderDigest(webhookId, "t1", body), "t1", body)

\* The isolate is evicted and a fresh one serves the next request: the
\* module-level Set starts empty again.  Steps handed to ctx.waitUntil and the
\* database are not affected.
Restart ==
  /\ processedWebhooks # {}
  /\ processedWebhooks' = {}
  /\ UNCHANGED <<jwt, env, hook, now, users, sessions, usage_logs, tokens, req, val, tasks, resp, nreq, nval>>

TaskIds == 1 .. MaxTasks

SetTask(i, t) == tasks' = [tasks EXCEPT ![i] = t]

\* The statement without its WHERE clause.
TaskExpireAll(i) ==
  /\ i \in DOMAIN tasks
  /\ tasks[i].pc = "expire"
  /\ users' = [k \in DOMAIN users |-> [users[k] EXCEPT !.status = "expired"]]
  /\ SetTask(i, Finished(tasks[i], ""))
  /\ UNCHANGED <<jwt, env, hook, now, sessions, usage_logs, tokens, processedWebhooks, req, val, resp, nreq, nval>>

\* UPDATE users SET status = 'expired' WHERE email = ?
TaskExpire(i) ==
  /\ i \in DOMAIN tasks
  /\ tasks[i].pc = "expire"
  /\ users' = [k \in DOMAIN users |->
                 IF users[k].email = tasks[i].email
                   THEN [users[k] EXCEPT !.status = "expired"] ELSE users[k]]
  /\ SetTask(i, Finished(tasks[i], ""))
  /\ UNCHANGED <<jwt, env, hook, now, sessions, usage_logs, tokens, processedWebhooks, req, val, resp, nreq, nval>>

\* SELECT * FROM users WHERE email = ?, then now, and for a new email the key.
\* generateKey throws on a plan that is undefined (plan.toUpperCase()).
TaskSelect(i) ==
  /\ i \in DOMAIN tasks
  /\ tasks[i].pc = "select"
  /\ \E existingUser \in FirstOrNone(UsersByEmail(tasks[i].email), NoUser) :
       IF existingUser # NoUser
         THEN SetTask(i, [tasks[i] EXCEPT !.pc = "update", !.existingUser = existingUser,
                                          !.now = now,
                                          !.finalLicenseKey = existingUser.license_key])
         ELSE IF tasks[i].productConfig = InheritedValue
           THEN SetTask(i, Finished(tasks[i], "TypeError"))
         ELSE \E random \in KeySuffixes :
                SetTask(i, [tasks[i] EXCEPT !.pc = "insert", !.now = now,
                              !.finalLicenseKey =
                                 generateKey(tasks[i].productConfig.plan, random)])
  /\ UNCHANGED <<jwt, env, hook, now, users, sessions, usage_logs, tokens, processedWebhooks, req, val, resp, nreq, nval>>

\* Sensitivity variant of RenewedExpiry: always counted from the stored expiry.
RenewedExpiryFromStored(currentExpiry, t, durationSeconds) ==
  currentExpiry + durationSeconds

\* (currentExpiry > now ? currentExpiry : now) + durationSeconds
RenewedExpiry(currentExpiry, t, durationSeconds) ==
  (IF currentExpiry > t THEN currentExpiry ELSE t) + durationSeconds

DurationSeconds(productConfig) == productConfig.durationDays * DAY

\* UPDATE users SET plan, status='active', expires_at, payment_provider WHERE id = ?
RenewedRow(u, t) ==
  [u EXCEPT !.plan = t.productConfig.plan,
            !.status = "active",
            !.expires_at = RenewedExpiry(t.existingUser.expires_at, t.now,
                                         DurationSeconds(t.productConfig)),
            !.payment_provider = "dodo_webhook"]

\* Sensitivity variant of TaskUpdate: the renewal is awaited by the handler,
\* whose response reports how it ended.
TaskUpdateAnswering(i) ==
  /\ i \in DOMAIN tasks
  /\ tasks[i].pc = "update"
  /\ LET id == tasks[i].existingUser.id
     IN users' = [users EXCEPT ![id] = RenewedRow(users[id], tasks[i])]
  /\ SetTask(i, Finished(tasks[i], ""))
  /\ resp' = HookResponse(tasks[i].webhook_id, 201, "", FALSE)
  /\ UNCHANGED <<jwt, env, hook, now, sessions, usage_logs, tokens, processedWebhooks, req, val, nreq, nval>>

\* bind() throws on a plan that is undefined: the statement is not run.
TaskUpdate(i) ==
  /\ i \in DOMAIN tasks
  /\ tasks[i].pc = "update"
  /\ IF tasks[i].productConfig = InheritedValue
       THEN /\ UNCHANGED users
            /\ SetTask(i, Finished(tasks[i], "D1_TYPE_ERROR"))
       ELSE /\ LET id == tasks[i].existingUser.id
               IN users' = [users EXCEPT ![id] = RenewedRow(users[id], tasks[i])]
            /\ SetTask(i, Finished(tasks[i], ""))
  /\ UNCHANGED <<jwt, env, hook, now, sessions, usage_logs, tokens, processedWebhooks, req, val, resp, nreq, nval>>

\* Sensitivity variant of InsertAllowed: a table without UNIQUE(email).
InsertAllowedByKey(email, license_key) == UsersByKey(license_key) = {}

\* UNIQUE(email), UNIQUE(license_key) of CREATE TABLE users
InsertAllowed(email, license_key) ==
  UsersByEmail(email) = {} /\ UsersByKey(license_key) = {}

\* INSERT INTO users (...) VALUES (..., 'active', now, now + duration, 'dodo_webhook')
CreatedRow(id, t) ==
  [id |-> id, email |-> t.email, license_key |-> t.finalLicenseKey,
   plan |-> t.productConfig.plan, status |-> "active", created_at |-> t.now,
   expires_at |-> t.now + DurationSeconds(t.productConfig),
   payment_provider |-> "dodo_webhook"]

\* A constraint failure throws into the catch of processWebhookAsync.
TaskInsert(i) ==
  /\ i \in DOMAIN tasks
  /\ tasks[i].pc = "insert"
  /\ IF InsertAllowed(tasks[i].email, tasks[i].finalLicenseKey)
       THEN /\ users' = Append(users, CreatedRow(Len(users) + 1, tasks[i]))
            /\ SetTask(i, Finished(tasks[i], ""))
       ELSE /\ UNCHANGED users
            /\ SetTask(i, Finished(tasks[i], "constraint failed"))
  /\ UNCHANGED <<jwt, env, hook, now, sessions, usage_logs, tokens, processedWebhooks, req, val, resp, nreq, nval>>

\* A statement of processWebhookAsync fails for a transient storage error:
\* the exception reaches the catch, which logs it; nothing is written and
\* nothing is scheduled again.
TaskFail(i) ==
  /\ i \in DOMAIN tasks
  /\ tasks[i].pc # "done"
  /\ SetTask(i, Finished(tasks[i], "storage error"))
  /\ UNCHANGED <<jwt, env, hook, now, users, sessions, usage_logs, tokens, processedWebhooks, req, val, resp, nreq, nval>>

\* ------------------------------------------------------------- token calls
\* One call of generateJWT and one call of verifyJWT on a token that derives
\* from its result: the inputs of the two functions, drawn from small sets.
Secrets == {JWT_SECRET, OtherSecret}
Payloads == [sub : ExtKeys, plan : {"monthly", "yearly"}, exp : {Now0, Now0 + DAY}]

NoJwt == [pc |-> "idle", payload |-> NoPayload, secret |-> <<>>, token |-> NoToken,
          presented |-> NoToken, verifySecret |-> <<>>, result |-> NoPayload]

Segments(token) == Split(token, Dot)
Join3(h, b, s) == h \o <<Dot>> \o b \o <<Dot>> \o s

\* What a client may send for a token it was given: the token, and the token
\* with a segment exchanged, dropped, added or re-encoded.
Presented(token, secret) ==
  LET parts == Segments(token)
      h == parts[1]
      b == parts[2]
      s == parts[3]
      noneHeader == Btoa(JsonStringify([alg |-> "none", typ |-> "JWT"]))
      notBase64 == << <<"!">> >>
      notJson == Btoa(<< <<"x">> >>)
  IN {token,
      Join3(noneHeader, b, s),
      Join3(h, b, FromBase64Url(s)),
      Join3(h, b, notBase64),
      Join3(h, b, <<>>),
      token \o <<Dot>> \o notBase64,
      h \o <<Dot>> \o b,
      h,
      NoToken,
      SignedText(h \o <<Dot>> \o notBase64, secret),
      SignedText(h \o <<Dot>> \o notJson, secret),
      SignedText(h \o <<Dot>> \o ToBase64Url(b), secret)}
    \cup {Join3(h, Segments(generateJWT(q, secret))[2], s) : q \in Payloads}

InitToken ==
  /\ env = [DODO_WEBHOOK_SECRET |-> ProviderSecret]
  /\ now = Now0
  /\ users = <<>>
  /\ sessions = <<>>
  /\ usage_logs = <<>>
  /\ tokens = {}
  /\ processedWebhooks = {}
  /\ req = [p \in Procs |-> IdleReq]
  /\ val = [p \in Procs |-> IdleVal]
  /\ tasks = <<>>
  /\ hook = NoHook
  /\ resp = NoResp
  /\ nreq = 0
  /\ nval = 0
  /\ \E payload \in Payloads, secret \in Secrets :
       jwt = [NoJwt EXCEPT !.pc = "generate", !.payload = payload, !.secret = secret]

JwtGenerate ==
  /\ jwt.pc = "generate"
  /\ jwt' = [jwt EXCEPT !.pc = "present",
                        !.token = generateJWT(jwt.payload, jwt.secret)]
  /\ UNCHANGED <<env, now, users, sessions, usage_logs, tokens, processedWebhooks,
                 req, val, tasks, hook, resp, nreq, nval>>

JwtPresent ==
  /\ jwt.pc = "present"
  /\ \E presented \in Presented(jwt.token, jwt.secret), verifySecret \in Secrets :
       jwt' = [jwt EXCEPT !.pc = "verify", !.presented = presented,
                          !.verifySecret = verifySecret]
  /\ UNCHANGED <<env, now, users, sessions, usage_logs, tokens, processedWebhooks,
                 req, val, tasks, hook, resp, nreq, nval>>

JwtVerify ==
  /\ jwt.pc = "verify"
  /\ jwt' = [jwt EXCEPT !.pc = "done",
                        !.result = verifyJWT(jwt.presented, jwt.verifySecret)]
  /\ UNCHANGED <<env, now, users, sessions, usage_logs, tokens, processedWebhooks,
                 req, val, tasks, hook, resp, nreq, nval>>

NextToken == JwtGenerate \/ JwtPresent \/ JwtVerify

SpecToken == InitToken /\ [][NextToken]_vars

\* ----------------------------------------------------------- specification
InitTables(userTable, sessionTable, ledger, issued) ==
  /\ now = Now0
  /\ users = userTable
  /\ sessions = sessionTable
  /\ usage_logs = ledger
  /\ tokens = issued
  /\ processedWebhooks = {}
  /\ req = [p \in Procs |-> IdleReq]
  /\ val = [p \in Procs |-> IdleVal]
  /\ tasks = <<>>
  /\ hook = NoHook
  /\ jwt = NoJwt
  /\ resp = NoResp
  /\ nreq = 0
  /\ nval = 0

InitWith(userTable, sessionTable, issued) ==
  InitTables(userTable, sessionTable, <<>>, issued)

TaskStep(i) == TaskExpire(i) \/ TaskSelect(i) \/ TaskUpdate(i) \/ TaskInsert(i)

ReqStep(p) ==
  \/ ReqLookup(p) \/ ReqTouch(p) \/ ReqCount(p) \/ ReqInsert(p)
  \/ ReqQuota(p) \/ ReqUpstream(p) \/ ReqIncrement(p) \/ ReqLog(p)

\* No handler and no background step is under way.
Quiescent ==
  /\ \A p \in Procs : ReqFree(p) /\ ValFree(p)
  /\ \A i \in DOMAIN tasks : tasks[i].pc = "done"

\* The worker on a fresh database.
Init == env \in Envs /\ InitWith(<<>>, <<>>, {})

Next ==
  \/ Tick
  \/ Restart
  \/ Deliver
  \/ \E i \in TaskIds : TaskStep(i) \/ TaskFail(i)
  \/ \E p \in Procs : ValBegin(p) \/ ValUpsert(p)
  \/ \E p \in Procs : ReqBegin(p) \/ ReqStep(p)
  \/ \E p \in Procs : ScoreBegin(p) \/ ScoreStep(p)

Spec == Init /\ [][Next]_vars

\* ------------------------------------------------- licenses: validate, webhook
\* A users table as earlier purchases left it: one license of email "a",
\* about to expire or expired 1000 s ago.
OldLicense(status, expires_at) ==
  [id |-> 1, email |-> "a", license_key |-> <<"ext", 1>>, plan |-> "yearly",
   status |-> status, created_at |-> expires_at - 365 * DAY,
   expires_at |-> expires_at, payment_provider |-> ""]

InitUserTables ==
  {<<OldLicense("active", Now0 + 1)>>, <<OldLicense("active", Now0 - 10)>>,
   <<OldLicense("suspended", Now0 + 1)>>, <<OldLicense("expired", Now0 - 10)>>}

InitLicense ==
  /\ env = [DODO_WEBHOOK_SECRET |-> ProviderSecret]
  /\ \E userTable \in InitUserTables : InitWith(userTable, <<>>, {})

NextLicense ==
  \/ Tick
  \/ DeliverLifecycle
  \/ \E i \in TaskIds : TaskStep(i)
  \/ \E p \in Procs : ValBegin(p) \/ ValUpsert(p)

SpecLicense == InitLicense /\ [][NextLicense]_vars

\* The same, one operation at a time.
NextLicenseSeq ==
  \/ Tick
  \/ Quiescent /\ DeliverLifecycle
  \/ \E i \in TaskIds : TaskStep(i)
  \/ \E p \in Procs : (Quiescent /\ ValBegin(p)) \/ ValUpsert(p)

SpecLicenseSeq == InitLicense /\ [][NextLicenseSeq]_vars

\* -------------------------------------------- devices: sessions and quota
\* Two licensed accounts; the first is on the free trial (daily_limit 5).
DeviceUsers ==
  <<[id |-> 1, email |-> "a", license_key |-> <<"ext", 1>>, plan |-> "free_trial",
     status |-> "active", created_at |-> Now0 - DAY, expires_at |-> Now0 + 29 * DAY,
     payment_provider |-> ""],
    [id |-> 2, email |-> "b", license_key |-> <<"ext", 2>>, plan |-> "monthly",
     status |-> "active", created_at |-> Now0 - DAY, expires_at |-> Now0 + 29 * DAY,
     payment_provider |-> ""]>>

\* The first account's client holds its token.
DeviceTokens ==
  {TokenFor(DeviceUsers[1].license_key, DeviceUsers[1].plan, DeviceUsers[1].expires_at)}

\* Rows of the first account: its first device one request short of the daily
\* limit, and a second device that has not been used today.
OldSession(id, fp, daily_requests) ==
  [id |-> id, user_id |-> 1, license_key |-> <<"ext", 1>>,
   device_fingerprint |-> fp, device_hash |-> DeviceHashOf(1, fp, <<>>),
   browser_agent |-> <<>>, created_at |-> Now0 - 1, last_used |-> Now0 - 1,
   daily_requests |-> daily_requests, daily_reset_at |-> TodayOf(Now0),
   is_active |-> 1]

InitSessionTables ==
  {<<>>, <<OldSession(1, <<1>>, 4)>>, <<OldSession(1, <<1>>, 4), OldSession(2, <<1, 2>>, 0)>>}

InitDevices ==
  /\ env = [DODO_WEBHOOK_SECRET |-> ProviderSecret]
  /\ \E sessionTable \in InitSessionTables : InitWith(DeviceUsers, sessionTable, DeviceTokens)

NextDevices ==
  \/ Tick
  \/ \E p \in Procs : ReqBegin(p) \/ ReqStep(p)

SpecDevices == InitDevices /\ [][NextDevices]_vars

\* The same, one request at a time.
NextDevicesSeq ==
  \/ Tick
  \/ \E p \in Procs : (Quiescent /\ ReqBegin(p)) \/ ReqStep(p)

SpecDevicesSeq == InitDevices /\ [][NextDevicesSeq]_vars

\* ------------------------------------------- entitlement of issued tokens
\* One License, active until 100 s from now, whose client holds the token
\* that validate issued for it; the clock, a cancellation from the provider,
\* and requests to the four endpoints that take the token.
GateToken == TokenFor(<<"ext", 1>>, "yearly", Now0 + 1)

InitGate ==
  /\ env = [DODO_WEBHOOK_SECRET |-> ProviderSecret]
  /\ InitWith(<<OldLicense("active", Now0 + 1)>>, <<>>, {GateToken})

Cancellation ==
  [type |-> "subscription.cancelled", email |-> "a", product_id |-> MonthlyProduct,
   line_product_id |-> "", subscription_id |-> ""]

DeliverCancellation ==
  /\ processedWebhooks = {}
  /\ HandleWebhook(1, V1Comma \o ProviderDigest(1, "t1", Cancellation), "t1", Cancellation)

NextGate ==
  \/ Tick
  \/ Quiescent /\ DeliverCancellation
  \/ \E i \in TaskIds : TaskExpire(i)
  \/ \E p \in Procs : (Quiescent /\ ReqBegin(p)) \/ ReqStep(p)
  \/ \E p \in Procs : (Quiescent /\ ScoreBegin(p)) \/ ScoreStep(p)

SpecGate == InitGate /\ [][NextGate]_vars

\* --------------------------------------------------- events of every kind
\* The provider's deliveries, one at a time, of every event the model has:
\* each type, with or without email, product and subscription id.
InitEvents ==
  /\ env = [DODO_WEBHOOK_SECRET |-> ProviderSecret]
  /\ InitWith(<<OldLicense("active", Now0 + 1)>>, <<>>, {})

DeliverEvent ==
  \E body \in Events :
    LET webhookId == Cardinality(processedWebhooks) + 1
    IN HandleWebhook(webhookId, V1Comma \o ProviderDigest(webhookId, "t1", body), "t1", body)

NextEvents ==
  \/ Quiescent /\ DeliverEvent
  \/ \E i \in TaskIds : TaskStep(i)

SpecEvents == InitEvents /\ [][NextEvents]_vars

\* ------------------------------------------------------------ two accounts
\* Both accounts' clients hold their tokens; the first account has used one
\* device today, the second none yet.
TenantTokens ==
  {TokenFor(DeviceUsers[u].license_key, DeviceUsers[u].plan, DeviceUsers[u].expires_at) :
     u \in DOMAIN DeviceUsers}

InitTenants ==
  /\ env = [DODO_WEBHOOK_SECRET |-> ProviderSecret]
  /\ InitWith(DeviceUsers, <<OldSession(1, <<1>>, 4)>>, TenantTokens)

NextTenants ==
  \/ Tick
  \/ \E p \in Procs : ReqBegin(p) \/ ReqStep(p)

SpecTenants == InitTenants /\ [][NextTenants]_vars

\* ------------------------------------------------------- a ledger with rows
\* The first account has, today, no row in usage_logs or one row less than its
\* plan's daily_limit; its client sends requests one at a time.
LedgerRows(n) ==
  [k \in 1 .. n |-> [user_id |-> 1, action |-> "score_products", timestamp |-> Now0]]

InitLedger ==
  /\ env = [DODO_WEBHOOK_SECRET |-> ProviderSecret]
  /\ \E n \in {0, PlanQuotaRows.free_trial - 1} :
       InitTables(DeviceUsers, <<>>, LedgerRows(n), DeviceTokens)

NextLedger ==
  \/ Tick
  \/ \E p \in Procs : (Quiescent /\ ReqBegin(p)) \/ ReqStep(p)
  \/ \E p \in Procs : (Quiescent /\ ScoreBegin(p)) \/ ScoreStep(p)

SpecLedger == InitLedger /\ [][NextLedger]_vars

\* ------------------------------------------------- renewals of one License
\* The License of "a" is active and expires after every instant of the run;
\* the provider delivers purchase events for it, each under the next unused
\* webhook-id, and the background steps run in any interleaving.
RenewedLicense == OldLicense("active", Now0 + 2 * DAY)

Renewals ==
  {e \in Events : /\ e.type = "payment.succeeded"
                  /\ e.email = RenewedLicense.email
                  /\ e.product_id \in {MonthlyProduct, YearlyProduct}
                  /\ e.line_product_id = ""
                  /\ e.subscription_id = ""}

InitRenew ==
  /\ env = [DODO_WEBHOOK_SECRET |-> ProviderSecret]
  /\ InitWith(<<RenewedLicense>>, <<>>, {})

DeliverRenewal ==
  \E body \in Renewals :
    LET webhookId == Cardinality(processedWebhooks) + 1
    IN HandleWebhook(webhookId, V1Comma \o ProviderDigest(webhookId, "t1", body), "t1", body)

NextRenew ==
  \/ Tick
  \/ DeliverRenewal
  \/ \E i \in TaskIds : TaskSelect(i) \/ TaskUpdate(i)

SpecRenew == InitRenew /\ [][NextRenew]_vars

\* ------------------------------------------- redelivery after a failure
\* One isolate that is never evicted.  The provider delivers purchase and
\* cancellation events and delivers any of them again, under its webhook-id
\* and with its content; a statement of a background step may fail.  A step
\* handed to ctx.waitUntil is run to its end, and the provider keeps
\* redelivering: both are weakly fair.
InitRetry ==
  /\ env = [DODO_WEBHOOK_SECRET |-> ProviderSecret]
  /\ InitWith(<<OldLicense("active", Now0 + 1)>>, <<>>, {})

Redeliver ==
  \E i \in TaskIds, body \in LifecycleEvents :
    /\ i \in DOMAIN tasks
    /\ NewTask(tasks[i].webhook_id, body.type, body)
         = [tasks[i] EXCEPT !.pc = FirstStep(body.type, body), !.error = ""]
    /\ HandleWebhook(tasks[i].webhook_id,
                     V1Comma \o ProviderDigest(tasks[i].webhook_id, "t1", body), "t1", body)

NextRetry ==
  \/ DeliverLifecycle
  \/ Redeliver
  \/ \E i \in TaskIds : TaskStep(i) \/ TaskFail(i)

SpecRetry ==
  /\ InitRetry /\ [][NextRetry]_vars
  /\ WF_vars(\E i \in TaskIds : TaskStep(i))
  /\ WF_vars(Redeliver)

\* ------------------------------------------------- webhook endpoint alone
\* The endpoint under any sender, with the secret configured or not, on a
\* table with one License of email "a".
InitWebhook ==
  /\ env \in Envs
  /\ InitWith(<<OldLicense("active", Now0 + 1)>>, <<>>, {})

NextWebhook ==
  \/ Restart
  \/ DeliverSample
  \/ \E i \in TaskIds : TaskStep(i)

SpecWebhook == InitWebhook /\ [][NextWebhook]_vars

\* ================================================================== claims
NextUserRows == {users'[k] : k \in DOMAIN users'}

\* ---------------------------------------------------------------------- C1
\* C1: validate answers a local License with a token only if its status is
\* active and its expires_at is strictly greater than now (expires_at = now is
\* rejected).  The code tests expires_at < now: this formula is violated.
C1_TokenOnlyBeforeExpiry ==
  [][(nval' = nval + 1 /\ resp'.endpoint = "validate" /\ resp'.status = 200)
       => \A local \in UsersByKey(resp'.key) :
            local.status = "active" /\ local.expires_at > now]_vars

\* ---------------------------------------------------------------------- C2
\* Rows of one device as the client names it.
RowsOfDevice(userId, fp, agent) ==
  {s \in SessionRows : /\ s.user_id = userId
                       /\ s.device_fingerprint = fp
                       /\ s.browser_agent = agent}

\* C2: with one call at a time, a call for a (user, fingerprint, agent) that
\* already has a row adds no row and is never answered DEVICE_LIMIT_REACHED,
\* whatever the number of active sessions of the user.
C2_KnownDeviceAdmitted ==
  [][\A p \in Procs :
       (req[p].pc # "idle" /\ RowsOfDevice(req[p].user, req[p].fp, req[p].agent) # {})
         => /\ Len(sessions') = Len(sessions)
            /\ ~(req'[p].pc = "idle" /\ resp'.error = "DEVICE_LIMIT_REACHED")]_vars

\* A known device got through getOrCreateDeviceSession with the user at the cap.
C2_Witness ==
  \E p \in Procs :
    /\ req[p].pc = "quota"
    /\ req[p].existing # NoSession
    /\ RowsOfDevice(req[p].user, req[p].fp, req[p].agent) # {}
    /\ ActiveCount(req[p].user) = MAX_DEVICES_PER_LICENSE

\* ---------------------------------------------------------------------- C3
\* C3: with one call at a time, a call for a device without a row (the device
\* being its device_hash) of a user with exactly MAX_DEVICES_PER_LICENSE active
\* sessions goes from the lookup to the count, is answered 403
\* DEVICE_LIMIT_REACHED there, and changes no session row.
C3_NewDeviceAtCapRejected ==
  [][\A p \in Procs :
       (/\ req'[p] # req[p]
        /\ ActiveCount(req[p].user) = MAX_DEVICES_PER_LICENSE
        /\ {s \in SessionRows : s.user_id = req[p].user /\ s.device_hash = req[p].hash} = {})
         => /\ req[p].pc = "lookup" => req'[p].pc = "count" /\ sessions' = sessions
            /\ req[p].pc = "count" => /\ req'[p] = IdleReq
                                      /\ resp'.status = 403
                                      /\ resp'.error = "DEVICE_LIMIT_REACHED"
                                      /\ resp'.user = req[p].user
                                      /\ sessions' = sessions]_vars

\* A third device was rejected; the two rows are as they were.
C3_Witness ==
  /\ resp.status = 403
  /\ resp.error = "DEVICE_LIMIT_REACHED"
  /\ sessions = <<OldSession(1, <<1>>, 4), OldSession(2, <<1, 2>>, 0)>>

\* ---------------------------------------------------------------------- C4
\* C4: in every reachable state a user has at most MAX_DEVICES_PER_LICENSE
\* active sessions.  Lookup, count and insert are separate statements: two
\* calls for two new devices both count below the cap and both insert, so
\* this formula is violated.
C4_DeviceCap ==
  \A u \in DOMAIN users : ActiveCount(users[u].id) <= MAX_DEVICES_PER_LICENSE

\* ---------------------------------------------------------------------- C5
\* The sum of the counters that belong to the current day.
UsedToday(userId) ==
  SumRequests({s \in SessionRows :
                 s.user_id = userId /\ s.daily_reset_at = TodayOf(now)})

\* C5: at the quota gate of generate-keywords and process the request goes on
\* to the gated action iff the sum of daily_requests over the user's rows of
\* the current day is below the daily_limit of the token's plan; otherwise it
\* is answered 429 with that sum and that limit.  Rows of earlier days are not
\* in the sum.
C5_QuotaGate ==
  [][\A p \in Procs :
       (/\ req[p].pc = "quota"
        /\ req[p].op \in {"keywords", "process"}
        /\ req[p].payload.plan \in DOMAIN PlanQuotaRows
        /\ req'[p] # req[p])
         => LET used == UsedToday(req[p].user)
                limit == PlanQuotaRows[req[p].payload.plan]
            IN IF used < limit
                 THEN /\ req'[p].pc = "upstream"
                      /\ req'[p].used = used
                      /\ req'[p].limit = limit
                      /\ resp' = resp
                 ELSE /\ req'[p] = IdleReq
                      /\ resp'.status = 429
                      /\ resp'.used = used
                      /\ resp'.limit = limit]_vars

\* A request was answered 429 at 5 of 5.
C5_Witness ==
  /\ resp.status = 429
  /\ resp.endpoint \in {"keywords", "process"}
  /\ resp.used = resp.limit
  /\ resp.used = UsedToday(resp.user)

\* ---------------------------------------------------------------------- C6
\* C6: the sum of daily_requests counted for the current day never exceeds the
\* plan's daily_limit.  The check and the increment are separate statements:
\* two requests pass at limit - 1 and both increment, so this formula is
\* violated.
C6_QuotaNeverExceeded ==
  \A u \in DOMAIN users :
    DailyUsage(users[u].id, TodayOf(now)) <= DailyLimitOf(users[u].plan)

\* ---------------------------------------------------------------------- C7
\* C7: once a row's counter belongs to the current day it is not reset again
\* that day: no step lowers daily_requests of a row whose daily_reset_at is
\* today.  The reset is an unconditional UPDATE decided on an earlier SELECT:
\* a concurrent request resets a second time, so this formula is violated.
C7_ResetOncePerDay ==
  [][\A i \in DOMAIN sessions :
       sessions[i].daily_reset_at = TodayOf(now)
         => sessions'[i].daily_requests >= sessions[i].daily_requests]_vars

\* ---------------------------------------------------------------------- C8
\* C8: with one operation at a time, the UPDATE of a success event for an
\* email that has a License (stored expiry E, processing time N, product
\* duration D) stores expires_at = max(E, N) + D, the product's plan and
\* status active, whatever the status was; E = N - 1000 s with the 30-day
\* product gives N + 2592000 s.
C8_Renewal ==
  [][\A i \in TaskIds :
       (i \in DOMAIN tasks /\ tasks[i].pc = "update" /\ tasks'[i].pc = "done")
         => LET id == tasks[i].existingUser.id
                E == users[id].expires_at
                N == tasks[i].now
                D == tasks[i].productConfig.durationDays * DAY
            IN /\ users'[id].expires_at = Max(E, N) + D
               /\ users'[id].plan = tasks[i].productConfig.plan
               /\ users'[id].plan \in {"monthly", "yearly"}
               /\ D = (IF users'[id].plan = "monthly" THEN 30 ELSE 365) * DAY
               /\ users'[id].status = "active"
               /\ (E = N - 1000 \div 100 /\ users'[id].plan = "monthly")
                    => users'[id].expires_at = N + 2592000 \div 100]_vars

\* A License that was expired 1000 s before the event, renewed for 30 days.
C8_Witness ==
  /\ \E i \in DOMAIN tasks :
       /\ tasks[i].pc = "done"
       /\ tasks[i].type = "payment.succeeded"
       /\ tasks[i].productConfig.plan = "monthly"
  /\ users[1].expires_at = Now0 + 2592000 \div 100
  /\ users[1].plan = "monthly"
  /\ users[1].status = "active"
  /\ users[1].payment_provider = "dodo_webhook"

\* ---------------------------------------------------------------------- C9
\* C9: no two License rows share a license_key or an email in any reachable
\* state, and the INSERT of a success event whose generated key is held by no
\* row leaves exactly one License for the event's email; when the email had
\* none, that License is the row the step adds: active, the product's plan,
\* the generated key, expires_at = N + D.
C9_LicensesUnique ==
  \A i, j \in DOMAIN users :
    i # j => /\ users[i].license_key # users[j].license_key
             /\ users[i].email # users[j].email

C9_OneLicensePerPurchase ==
  /\ []C9_LicensesUnique
  /\ [][\A i \in TaskIds :
          (/\ i \in DOMAIN tasks
           /\ tasks[i].pc = "insert"
           /\ tasks'[i].pc = "done"
           /\ \A u \in UserRows : u.license_key # tasks[i].finalLicenseKey)
            => LET t == tasks[i]
                   held == {u \in NextUserRows : u.email = t.email}
               IN /\ Cardinality(held) = 1
                  /\ (\A u \in UserRows : u.email # t.email)
                       => /\ Len(users') = Len(users) + 1
                          /\ \A u \in held :
                               /\ u.status = "active"
                               /\ u.plan = t.productConfig.plan
                               /\ u.license_key = t.finalLicenseKey
                               /\ u.expires_at = t.now + t.productConfig.durationDays * DAY]_vars

\* Two success events for the same new email ran side by side: one INSERT was
\* applied, the other failed on the constraint.
C9_Witness ==
  \E i, j \in DOMAIN tasks :
    /\ i # j
    /\ tasks[i].pc = "done" /\ tasks[j].pc = "done"
    /\ tasks[i].type = "payment.succeeded" /\ tasks[j].type = "payment.succeeded"
    /\ tasks[i].email = "b" /\ tasks[j].email = "b"
    /\ tasks[i].error = "" /\ tasks[j].error = "constraint failed"
    /\ Cardinality({u \in UserRows : u.email = "b"}) = 1

\* --------------------------------------------------------------------- C10
\* C10: no step stores an expires_at lower than the one stored before.  Two
\* success events read the same expiry and write one after the other: the
\* shorter product written last lowers it, so this formula is violated.
C10_ExpiryNeverDecreases ==
  [][\A i \in DOMAIN users : users'[i].expires_at >= users[i].expires_at]_vars

\* Steps of the webhook handler (the other steps leave all four alone or
\* only empty the processed set or move one background step on).
HandlerStep ==
  /\ resp'.endpoint = "webhook"
  /\ \/ hook' # hook
     \/ resp' # resp
     \/ Len(tasks') # Len(tasks)
     \/ processedWebhooks' \ processedWebhooks # {}

\* The request of the step has its three headers.
HeadersPresent(r) ==
  r.webhook_id # NoWebhookId /\ r.signature # <<>> /\ r.timestamp # ""

\* The request of the step gets past the signature check.
PassesSignature(r) ==
  \/ env.DODO_WEBHOOK_SECRET = NoSecret
  \/ verifySignature(r.body, r.signature, r.timestamp, r.webhook_id,
                     env.DODO_WEBHOOK_SECRET)

\* --------------------------------------------------------------------- C11
\* C11: a delivery whose webhook-id is in the processed set (headers present,
\* signature check passed) is answered 200 with duplicate:true, and the
\* processed set, the License table and the scheduled background steps are
\* the same before and after.
C11_DuplicateChangesNothing ==
  [][(/\ HandlerStep
      /\ HeadersPresent(hook')
      /\ PassesSignature(hook')
      /\ hook'.webhook_id \in processedWebhooks)
       => /\ resp'.status = 200
          /\ resp'.duplicate
          /\ processedWebhooks' = processedWebhooks
          /\ users' = users
          /\ tasks' = tasks]_vars

\* A delivery was answered duplicate:true; its first delivery was scheduled.
C11_Witness ==
  /\ resp.endpoint = "webhook" /\ resp.status = 200 /\ resp.duplicate
  /\ resp.webhook_id \in processedWebhooks
  /\ Cardinality({i \in DOMAIN tasks : tasks[i].webhook_id = resp.webhook_id}) = 1

\* --------------------------------------------------------------------- C12
\* The background step did what its event asks for.
Applied(t) == t.pc = "done" /\ t.error = "" /\ t.email # NoEmail

\* C12: the effect of one webhook-id is applied to the License table at most
\* once, also across instances and restarts.  The processed ids live in a
\* module-level Set: a fresh isolate schedules the redelivered event again,
\* so this formula is violated.
C12_AppliedAtMostOnce ==
  \A i, j \in DOMAIN tasks :
    (/\ i # j
     /\ Applied(tasks[i]) /\ Applied(tasks[j])
     /\ tasks[i].type = tasks[j].type
     /\ tasks[i].email = tasks[j].email
     /\ tasks[i].productConfig = tasks[j].productConfig)
      => tasks[i].webhook_id # tasks[j].webhook_id

\* --------------------------------------------------------------------- C13
\* A candidate with its 'v1,' prefix taken off.
StripPrefix(str, pattern) ==
  IF Len(str) >= Len(pattern) /\ SubSeq(str, 1, Len(pattern)) = pattern
    THEN SubSeq(str, Len(pattern) + 1, Len(str))
    ELSE str

\* Some space-separated candidate, its prefix taken off, is the provider's HMAC.
CandidateMatches(r) ==
  LET parts == Split(r.signature, Space)
  IN \E k \in DOMAIN parts :
       StripPrefix(parts[k], V1Comma) = ProviderDigest(r.webhook_id, r.timestamp, r.body)

\* C13: with the secret configured, a request with its three headers gets
\* past the signature check iff some space-separated candidate, its 'v1,'
\* prefix stripped, equals the HMAC over id.timestamp.body; otherwise it is
\* answered 401.  The code removes the first 'v1,' wherever it stands in the
\* candidate, so this formula is violated.
C13_AcceptedIffCandidateMatches ==
  [][(/\ HandlerStep
      /\ env.DODO_WEBHOOK_SECRET = ProviderSecret
      /\ HeadersPresent(hook'))
       => IF CandidateMatches(hook')
            THEN resp'.status # 401
            ELSE resp'.status = 401 /\ resp'.error = "Invalid signature"]_vars

C15_NoSilentBypass ==
  [][(/\ HandlerStep
      /\ resp'.error \notin {"Missing required headers", "Invalid signature"})
       => IF env.DODO_WEBHOOK_SECRET # NoSecret
            THEN /\ verifySignature(hook'.body, hook'.signature, hook'.timestamp,
                                    hook'.webhook_id, env.DODO_WEBHOOK_SECRET)
                 /\ \A k \in DOMAIN hook'.log :
                      hook'.log[k] # "Skipping signature verification - secret not configured"
            ELSE /\ Len(hook'.log) >= 3
                 /\ hook'.log[1] = "DODO_WEBHOOK_SECRET is not configured"
                 /\ hook'.log[2] = "Skipping signature verification - secret not configured"]_vars

\* Without a secret a request with a foreign signature was scheduled, the
\* bypass on record.
C15_Witness ==
  /\ env.DODO_WEBHOOK_SECRET = NoSecret
  /\ resp.endpoint = "webhook" /\ resp.status = 200 /\ ~resp.duplicate
  /\ hook.signature = V1Comma \o ForeignDigest(hook.webhook_id, hook.timestamp, hook.body)
  /\ Len(hook.log) = 3
  /\ hook.log[2] = "Skipping signature verification - secret not configured"

\* --------------------------------------------------------------------- C18
\* The presented token has three segments that decode: a signature in
\* base64 and a payload in base64 that is JSON.
ThreeUsableSegments(token) ==
  LET parts == Segments(token)
  IN /\ Len(parts) >= 3
     /\ Atobs(FromBase64Url(parts[3]))
     /\ Atobs(parts[2])
     /\ JsonParses(Atob(parts[2]))

\* C18: for the token t = generateJWT(p, s) and a verification with secret
\* s' of a presented token x: x = t and s' = s give p; x = t and s' # s give
\* null; an x that carries t's signature with another header or payload
\* segment gives null; an x without three usable segments gives null; and any
\* x that is accepted has three segments of which the third decodes to the
\* HMAC of 'first.second' under s'.
C18_RoundTripAndRejection ==
  jwt.pc = "done" =>
    LET t == jwt.token
        x == jwt.presented
        xs == Segments(x)
        ts == Segments(t)
    IN /\ (x = t /\ jwt.verifySecret = jwt.secret) => jwt.result = jwt.payload
       /\ (x = t /\ jwt.verifySecret # jwt.secret) => jwt.result = NoPayload
       /\ (/\ Len(xs) >= 3
           /\ xs[3] = ts[3]
           /\ (xs[1] # ts[1] \/ xs[2] # ts[2])) => jwt.result = NoPayload
       /\ ~ThreeUsableSegments(x) => jwt.result = NoPayload
       /\ jwt.result # NoPayload =>
            /\ Len(xs) >= 3
            /\ Atobs(FromBase64Url(xs[3]))
            /\ Atob(FromBase64Url(xs[3])) =
                 Hmac(jwt.verifySecret, xs[1] \o <<Dot>> \o xs[2])

\* The token as generated was verified with its own secret and gave back its
\* payload.
C18_Witness ==
  /\ jwt.pc = "done"
  /\ jwt.presented = jwt.token
  /\ jwt.verifySecret = jwt.secret
  /\ jwt.result = jwt.payload
  /\ jwt.payload # NoPayload

\* --------------------------------------------------------------------- C19
\* A step of validate that has read the users table for the posted key.
ValSelectStep(p) == val[p].pc = "idle" /\ nval' = nval + 1

\* C19: a validate call that finds no License for the posted key and gets a
\* not-ok answer from the billing provider ends at once with 403 'Invalid
\* license' and no token, the users table and the set of issued tokens as
\* they were; and it goes on to the INSERT only on an ok answer.
C19_UnverifiedKeyRefused ==
  [][\A p \in Procs :
       ValSelectStep(p) =>
         /\ (/\ val'[p].pc = "idle"
             /\ resp'.endpoint = "validate"
             /\ resp'.dodo = "rejected")
              => /\ UsersByKey(resp'.key) = {}
                 /\ resp'.status = 403
                 /\ resp'.error = "Invalid license"
                 /\ resp'.token = NoToken
                 /\ users' = users
                 /\ tokens' = tokens
         /\ val'[p].pc = "upsert" => val'[p].dodo = "ok"]_vars

\* An unknown key was refused after the provider's answer.
C19_Witness ==
  /\ resp.endpoint = "validate"
  /\ resp.dodo = "rejected"
  /\ resp.status = 403
  /\ resp.key \in ExtKeys
  /\ UsersByKey(resp.key) = {}
  /\ users # <<>>

\* --------------------------------------------------------------------- C20
\* C20: a validate call for a key without a License that the provider has
\* verified, with a plan of the schema, ends with 200, a License of that key
\* active with expires_at = now + duration(plan), and a token whose sub, plan
\* and exp are the row's key, plan and expires_at, whatever the users table
\* holds.  A License of another key with the customer's email breaks
\* UNIQUE(email) and the call ends with 500: this formula is violated.
C20_VerifiedKeyStored ==
  [][\A p \in Procs :
       (/\ val[p].pc = "upsert"
        /\ val'[p].pc = "idle"
        /\ val[p].plan \in {"monthly", "yearly", "lifetime"}
        /\ UsersByKey(val[p].key) = {})
         => /\ resp'.status = 200
            /\ \E u \in NextUserRows :
                 /\ u.license_key = val[p].key
                 /\ u.status = "active"
                 /\ u.expires_at = val[p].now + DefaultDuration(val[p].plan)
                 /\ verifyJWT(resp'.token, JWT_SECRET) =
                      [sub |-> u.license_key, plan |-> u.plan, exp |-> u.expires_at]]_vars

\* --------------------------------------------------------------------- C16
\* Slot p takes the request that starts in this step.
BeginStep(p) ==
  /\ ReqFree(p)
  /\ \A q \in Procs : q < p => ~ReqFree(q)
  /\ nreq' = nreq + 1

\* The License is active and not past its expiry.
Entitled(u, t) == u.status = "active" /\ u.expires_at > t

\* C16: a request to stats, generate-keywords or process gets past the token
\* and user checks only if the License of the token is active with
\* expires_at after now.  The three handlers read id and license_key of the
\* row and nothing else: this formula is violated.
C16_AdmittedOnlyWhileEntitled ==
  [][\A p \in Procs :
       (BeginStep(p) /\ req'[p].pc # "idle" /\ req'[p].op \in GatedOps)
         => \E u \in UsersByKey(req'[p].key) : Entitled(u, now)]_vars

\* --------------------------------------------------------------------- C17
\* The token of the request that starts in this step.
BeginToken(p) == IF req'[p].pc # "idle" THEN req'[p].token ELSE resp'.token

\* C17: stats, generate-keywords, process and score-products answer 401 to a
\* token with the server's signature whose exp is not after now.
\* utils.verifyJWT does not look at exp, so on the first three this formula
\* is violated.
C17_ExpiredTokenRejected ==
  [][\A p \in Procs :
       (/\ BeginStep(p)
        /\ verifyJWT(BeginToken(p), JWT_SECRET) # NoPayload
        /\ verifyJWT(BeginToken(p), JWT_SECRET).exp <= now)
         => req'[p].pc = "idle" /\ resp'.status = 401]_vars

\* C21: a step of the background work of a failure or cancellation event sets
\* status to expired on the License of the event's email and changes nothing
\* else: every other field of that License, every other License and the
\* number of Licenses stay as they were.
C21_FailureOnlyExpires ==
  [][\A i \in TaskIds :
       (i \in DOMAIN tasks /\ IsFailureType(tasks[i].type) /\ tasks'[i] # tasks[i])
         => /\ DOMAIN users' = DOMAIN users
            /\ \A k \in DOMAIN users :
                 IF users[k].email = tasks[i].email
                   THEN users'[k] = [users[k] EXCEPT !.status = "expired"]
                   ELSE users'[k] = users[k]]_vars

C21_Witness ==
  /\ Len(tasks) = 2
  /\ \A i \in 1 .. 2 : tasks[i].pc = "done" /\ IsFailureType(tasks[i].type)
  /\ tasks[1].email = "a" /\ tasks[2].email = "b"
  /\ Len(users) = 1
  /\ users[1] = [OldLicense("active", Now0 + 1) EXCEPT !.status = "expired"]

\* C22: device sessions are isolated per account.  Rows of different accounts
\* never share an id or a device hash, also for the same fingerprint and
\* agent; a step of a request of one account leaves every row of the other
\* accounts as it was, adds rows only for its own account, and so leaves the
\* other accounts' active-device count and daily usage unchanged; the device
\* cap and the daily quota a request is refused by are reached by its own
\* account's rows alone.
OwnActive(a) ==
  Cardinality({k \in DOMAIN sessions : sessions[k].user_id = a /\ sessions[k].is_active = 1})

OwnUsage(a, today) ==
  SumRequests({sessions[k] : k \in {j \in DOMAIN sessions :
                 sessions[j].user_id = a /\ sessions[j].daily_reset_at >= today}})

C22_AccountsIsolated ==
  [][/\ \A i, j \in DOMAIN sessions' :
          sessions'[i].user_id # sessions'[j].user_id
            => /\ sessions'[i].id # sessions'[j].id
               /\ sessions'[i].device_hash # sessions'[j].device_hash
     /\ \A p \in Procs :
          (req[p].pc # "idle" /\ req'[p] # req[p])
            => LET a == req[p].user
               IN /\ \A k \in DOMAIN sessions :
                       sessions[k].user_id # a
                         => k \in DOMAIN sessions' /\ sessions'[k] = sessions[k]
                  /\ \A k \in DOMAIN sessions' \ DOMAIN sessions : sessions'[k].user_id = a
                  /\ \A b \in DOMAIN users \ {a} :
                       /\ OwnActive(b)' = OwnActive(b)
                       /\ \A t \in Instants :
                            OwnUsage(b, TodayOf(t))' = OwnUsage(b, TodayOf(t))
                  /\ (req[p].pc = "count" /\ resp'.status = 403 /\ req'[p].pc = "idle")
                       => OwnActive(a) >= MAX_DEVICES_PER_LICENSE
                  /\ (req[p].pc = "quota" /\ resp'.status = 429 /\ req'[p].pc = "idle")
                       => OwnUsage(a, TodayOf(now)) >= DailyLimitOf(users[a].plan)]_vars

\* The second account has used, on the first account's device, one request:
\* it has its own row, and the first account's row is as it was.
C22_Witness ==
  /\ Len(sessions) = 2
  /\ sessions[1] = OldSession(1, <<1>>, 4)
  /\ sessions[2].user_id = 2
  /\ sessions[2].device_fingerprint = sessions[1].device_fingerprint
  /\ sessions[2].browser_agent = sessions[1].browser_agent
  /\ sessions[2].daily_requests = 1
  /\ resp.status = 200 /\ resp.user = 2

\* C23: the usage ledger gates nothing: a request is never refused on account
\* of the rows of usage_logs, that is, a refusal for the daily limit sent by
\* score-products would also be sent with no row in the ledger.
C23_LedgerNeverGates ==
  [][\A p \in Procs :
       (req[p].pc = "score_count" /\ req'[p].pc = "idle" /\ resp'.status = 429)
         => RateLimited(0, req[p].payload.plan)]_vars

\* C24: a failure of the INSERT into usage_logs never blocks or rolls back
\* the request: the step that fails to append the row still answers 200 and
\* leaves the incremented counters of device_sessions as they are.
C24_LogFailureNeverBlocks ==
  [][\A p \in Procs :
       (req[p].pc \in {"log", "score_log"} /\ req'[p].pc = "idle"
          /\ usage_logs' = usage_logs)
         => resp'.status = 200 /\ sessions' = sessions]_vars

\* C25: the lifecycle mutation comes after the handler's checks and never
\* holds up or alters the response.  A handler step that schedules a
\* background step has seen the three headers, passed the signature check,
\* found the webhook-id new and recorded it, and answers 200 in that same
\* step with the License table untouched and the background step at its
\* start; the License table changes only in a step of a scheduled background
\* step, and such a step leaves the response and the request record alone.
C25_MutationAfterChecks ==
  [][/\ (HandlerStep /\ Len(tasks') # Len(tasks))
          => /\ HeadersPresent(hook')
             /\ PassesSignature(hook')
             /\ hook'.webhook_id \notin processedWebhooks
             /\ hook'.webhook_id \in processedWebhooks'
             /\ resp'.status = 200
             /\ Len(tasks') = Len(tasks) + 1
             /\ tasks'[Len(tasks')] = NewTask(hook'.webhook_id, hook'.body.type, hook'.body)
     /\ HandlerStep => users' = users
     /\ users' # users
          => \E i \in DOMAIN tasks :
               /\ tasks[i].pc # "done"
               /\ tasks'[i] # tasks[i]
               /\ \A j \in DOMAIN tasks \ {i} : tasks'[j] = tasks[j]
     /\ (\E i \in DOMAIN tasks : tasks'[i] # tasks[i])
          => /\ resp' = resp
             /\ hook' = hook
             /\ processedWebhooks' = processedWebhooks]_vars

\* A purchase was acknowledged and, afterwards, its renewal of an existing
\* License was written: the response is still the acknowledgment.
C25_Witness ==
  /\ resp.endpoint = "webhook" /\ resp.status = 200 /\ ~resp.duplicate
  /\ \E i \in DOMAIN tasks :
       /\ tasks[i].webhook_id = resp.webhook_id
       /\ Applied(tasks[i])
       /\ IsSuccessType(tasks[i].type)
       /\ \E k \in DOMAIN users :
            /\ users[k].email = tasks[i].email
            /\ users[k].payment_provider = "dodo_webhook"
            /\ users[k].expires_at > Now0 + 31 * DAY

\* The order of a gated request's steps: the upstream call is reached only
\* from the quota gate with usage below the limit, the increment only from a
\* successful upstream call, and 200 is answered by the increment step
\* (process) or by the ledger step that follows it (generate-keywords).
GateOrder(p) ==
  /\ (req'[p].pc = "upstream" /\ req[p].pc # "upstream")
       => req[p].pc = "quota" /\ ~QuotaExceeded(req'[p].used, req'[p].limit)
  /\ (req'[p].pc = "increment" /\ req[p].pc # "increment") => req[p].pc = "upstream"
  /\ (req'[p].pc = "log" /\ req[p].pc # "log") => req[p].pc = "increment"
  /\ (req'[p].pc = "idle" /\ resp'.status = 200 /\ req[p].op \in {"keywords", "process"})
       => req[p].pc \in {"increment", "log"}

\* The increment step of request p adds exactly 1 to the counter of the
\* request's own session and leaves every other counter alone.
IncrementsOwn(p) ==
  /\ DOMAIN sessions' = DOMAIN sessions
  /\ sessions[req[p].sid].user_id = req[p].user
  /\ sessions[req[p].sid].device_hash = req[p].hash
  /\ \A k \in DOMAIN sessions :
       sessions'[k].daily_requests =
         sessions[k].daily_requests + (IF k = req[p].sid THEN 1 ELSE 0)

\* C26 as claimed: the steps of a gated request are in that order, its
\* increment step adds exactly 1 to its own session's counter, and no other
\* step of it changes the daily_requests of any row.
C26_CountersOnlyAfterSuccess ==
  [][\A p \in Procs :
       (req[p].op \in GatedOps /\ req[p].pc # "idle" /\ req'[p] # req[p])
         => /\ GateOrder(p)
            /\ IF req[p].pc = "increment"
                 THEN IncrementsOwn(p)
                 ELSE \A k \in DOMAIN sessions :
                        sessions'[k].daily_requests = sessions[k].daily_requests]_vars

\* C26 as amended: the same, except that the step of getOrCreateDeviceSession
\* that finds the request's own session with a daily_reset_at before today
\* sets that session's counter to 0, whatever becomes of the request
\* afterwards.
C26_CountersOnlyAfterSuccessOrReset ==
  [][\A p \in Procs :
       (req[p].op \in GatedOps /\ req[p].pc # "idle" /\ req'[p] # req[p])
         => /\ GateOrder(p)
            /\ IF req[p].pc = "increment"
                 THEN IncrementsOwn(p)
                 ELSE \A k \in DOMAIN sessions :
                        \/ sessions'[k].daily_requests = sessions[k].daily_requests
                        \/ /\ req[p].pc = "touch"
                           /\ k = req[p].existing.id
                           /\ sessions[k].user_id = req[p].user
                           /\ sessions[k].device_hash = req[p].hash
                           /\ NeedsReset(req[p].existing, req[p].today)
                           /\ sessions'[k].daily_requests = 0]_vars

\* A request of the next day found its session at 4, reset it, passed the
\* quota gate and was answered 500 for the upstream failure: the counter is 0.
C26_Witness ==
  /\ resp.status = 500 /\ resp.error = "AI service error"
  /\ Len(sessions) >= 1
  /\ sessions[1].daily_requests = 0
  /\ sessions[1].daily_reset_at = TodayOf(Now0 + DAY)
  /\ \A p \in Procs : req[p].pc = "idle"

\* C27: two purchase events with distinct webhook-ids and durations D1 and D2
\* for the same License, active until E, leave expires_at = E + D1 + D2 once
\* both are processed, in every interleaving.  Each background step reads the
\* row and later writes an expiry computed from what it read: the second
\* write overwrites the first, so this formula is violated.
C27_BothRenewalsCount ==
  (/\ Len(tasks) = 2
   /\ tasks[1].webhook_id # tasks[2].webhook_id
   /\ \A i \in 1 .. 2 : Applied(tasks[i]))
    => users[1].expires_at = RenewedLicense.expires_at
                               + DurationSeconds(tasks[1].productConfig)
                               + DurationSeconds(tasks[2].productConfig)

\* The product ids the catalog has an entry for.
InCatalog(productId) == productId \in {MonthlyProduct, YearlyProduct, LifetimeProduct}

\* An event that asks for no change: its type is neither a failure nor a
\* success type, or it is a success event without email, without a product
\* that can be resolved, or with a product the catalog does not have.
AsksNoChange(e) ==
  /\ ~IsFailureType(e.type)
  /\ \/ ~IsSuccessType(e.type)
     \/ e.email = NoEmail
     \/ ResolveProduct(e) = ""
     \/ ~InCatalog(ResolveProduct(e))

\* C28: such an event mutates no License.  Its background step is finished
\* when it is scheduled, or (an id that names an inherited property of the
\* catalog object) runs into an exception before its first write; a finished
\* step never moves again, and the License table changes only in a step of a
\* background step that is not of this kind.
C28_OtherEventsChangeNothing ==
  [][/\ (HandlerStep /\ Len(tasks') = Len(tasks) + 1 /\ AsksNoChange(hook'.body))
          => /\ users' = users
             /\ \/ tasks'[Len(tasks')].pc = "done"
                \/ tasks'[Len(tasks')].productConfig = InheritedValue
     /\ \A i \in DOMAIN tasks :
          /\ tasks[i].pc = "done" => tasks'[i] = tasks[i]
          /\ (tasks[i].productConfig = InheritedValue /\ tasks'[i] # tasks[i])
               => users' = users
     /\ users' # users
          => \E i \in DOMAIN tasks :
               /\ tasks'[i] # tasks[i]
               /\ tasks[i].pc # "done"
               /\ tasks[i].productConfig # InheritedValue]_vars

\* A purchase of "constructor" for the License's email ended in the
\* exception of bind(), then an event of another type was acknowledged: the
\* License is as it was.
C28_Witness ==
  /\ Len(tasks) = 2
  /\ tasks[1].pc = "done" /\ tasks[1].error = "D1_TYPE_ERROR"
  /\ tasks[2].pc = "done" /\ tasks[2].type = "invoice.created"
  /\ hook.body.product_id = "pdt_unknown"
  /\ resp.status = 200
  /\ users = <<OldLicense("active", Now0 + 1)>>

\* C29: a success event with an email and no product id, neither at the top
\* level nor in its first line item, is processed as the monthly product (30
\* days) when it has a subscription id, and is not applied when it has none:
\* the scheduled background step is then finished from the start.
C29_SubscriptionDefaultsToMonthly ==
  [][(/\ HandlerStep
      /\ Len(tasks') = Len(tasks) + 1
      /\ IsSuccessType(hook'.body.type)
      /\ hook'.body.email # NoEmail
      /\ hook'.body.product_id = ""
      /\ hook'.body.line_product_id = "")
       => LET t == tasks'[Len(tasks')]
          IN IF hook'.body.subscription_id # ""
               THEN /\ t.pc = "select"
                    /\ t.email = hook'.body.email
                    /\ t.productConfig = [plan |-> "monthly", durationDays |-> 30]
               ELSE /\ t.pc = "done"
                    /\ t.productConfig = NoProduct]_vars

\* A subscription event without product id created a monthly License of 30
\* days for a new email, and the same event without subscription id was
\* acknowledged afterwards and changed nothing.
C29_Witness ==
  /\ Len(tasks) = 2
  /\ Applied(tasks[1]) /\ tasks[1].type = "subscription.active"
  /\ tasks[1].productConfig.plan = "monthly"
  /\ tasks[2].pc = "done" /\ tasks[2].email = NoEmail
  /\ IsSuccessType(hook.body.type) /\ hook.body.email = "b"
  /\ hook.body.product_id = "" /\ hook.body.line_product_id = ""
  /\ hook.body.subscription_id = ""
  /\ Len(users) = 2
  /\ users[2].email = "b" /\ users[2].plan = "monthly"
  /\ users[2].expires_at = Now0 + 30 * DAY

\* C30: a webhook-id enters the processed set only in the handler step that
\* schedules its background step, and every delivery answered 400 or 401
\* leaves the set as it was.  The handler adds the id before it parses the
\* body, so a signed delivery with an unparsable body is answered 400 with its
\* id recorded: this formula is violated.
C30_RecordedOnlyWhenScheduled ==
  [][/\ (HandlerStep /\ resp'.status \in {400, 401})
          => processedWebhooks' = processedWebhooks
     /\ processedWebhooks' \ processedWebhooks # {}
          => /\ HandlerStep
             /\ Len(tasks') = Len(tasks) + 1
             /\ processedWebhooks' \ processedWebhooks = {tasks'[Len(tasks')].webhook_id}]_vars

\* C31: every purchase or cancellation event that was acknowledged and whose
\* webhook-id is in the processed set is eventually applied to the License
\* table by a background step of that webhook-id, when background steps run
\* to their end and the provider keeps redelivering.  A step that failed is
\* never run again and every redelivery is answered as a duplicate, so this
\* formula is violated.
C31_EventuallyApplied ==
  \A w \in WebhookIds :
    (\E i \in DOMAIN tasks : tasks[i].webhook_id = w /\ w \in processedWebhooks)
      ~> (\E i \in DOMAIN tasks : tasks[i].webhook_id = w /\ Applied(tasks[i]))

\* C32: the increment of a gated request lands on a counter that counts for
\* the current day and raises the user's usage of that day by exactly 1.
\* incrementDeviceUsage adds 1 to the row whatever its daily_reset_at: when
\* midnight falls between getOrCreateDeviceSession and the increment, the
\* row still counts for the day before, so this formula is violated.
C32_IncrementCountsToday ==
  [][\A p \in Procs :
       (req[p].pc = "increment" /\ req'[p] # req[p])
         => \A u \in {req[p].user}, today \in {TodayOf(now)} :
              /\ sessions[req[p].sid].daily_reset_at = today
              /\ DailyUsage(u, today)' = DailyUsage(u, today) + 1]_vars

\* The session rows of account u.
RowsOf(u) == {k \in DOMAIN sessions : sessions[k].user_id = u}

\* C33: no step deletes a session row, deactivates it or changes whose device
\* it is, and every row is active; hence, with one request at a time, an
\* account never has more than two rows, and once it has two, a request from
\* a device without a row is answered 403 DEVICE_LIMIT_REACHED and adds none.
C33_SessionsStayActive ==
  [][/\ \A k \in DOMAIN sessions :
          /\ k \in DOMAIN sessions'
          /\ sessions'[k].is_active = 1
          /\ sessions'[k].id = sessions[k].id
          /\ sessions'[k].user_id = sessions[k].user_id
          /\ sessions'[k].device_hash = sessions[k].device_hash
     /\ \A k \in DOMAIN sessions' : sessions'[k].is_active = 1
     /\ \A u \in DOMAIN users :
          Cardinality(RowsOf(u))' <= MAX_DEVICES_PER_LICENSE
     /\ \A p \in Procs :
          (/\ req[p].pc = "count"
           /\ req'[p] # req[p]
           /\ Cardinality(RowsOf(req[p].user)) = MAX_DEVICES_PER_LICENSE)
            => /\ resp'.status = 403
               /\ resp'.error = "DEVICE_LIMIT_REACHED"
               /\ sessions' = sessions]_vars

\* A second device was registered by a request, and the request of a third
\* device was then refused.
C33_Witness ==
  /\ Len(sessions) = 2
  /\ sessions[1] = OldSession(1, <<1>>, 4)
  /\ sessions[2].created_at = Now0
  /\ sessions[2].is_active = 1
  /\ resp.status = 403 /\ resp.error = "DEVICE_LIMIT_REACHED"
  /\ \A p \in Procs : req[p].pc = "idle"

====
